---- MODULE Spec2Model ----
(***************************************************************************)
(* Model of the R&S NGMO2 driver (rs_ngmo2.py): the validators, the        *)
(* Command read/write dispatch, the component caches and the triggered     *)
(* sampling run Log.start_sample, against a model of the instrument's bus. *)
(*                                                                         *)
(* Python strings are TLA+ strings.  Python values are records             *)
(* [t, n, s]: t is the Python type, n the number (a float is counted in    *)
(* units of 10^-FloatDigits), s the text of a str.                         *)
(***************************************************************************)
EXTENDS Integers, Sequences, FiniteSets, TLC

\* A float of the model is an integer number of 10^-FloatDigits: the finest
\* resolution a validator of the driver rounds to (sample_interval, 5 places).
FloatDigits == 5

RECURSIVE Pow10(_)
Pow10(k) == IF k <= 0 THEN 1 ELSE 10 * Pow10(k - 1)

FloatUnit == Pow10(FloatDigits)

PyNone == [t |-> "none", n |-> 0, s |-> ""]
PyInt(i) == [t |-> "int", n |-> i, s |-> ""]
PyFloat(u) == [t |-> "float", n |-> u, s |-> ""]
PyStr(x) == [t |-> "str", n |-> 0, s |-> x]
PyList == [t |-> "list", n |-> 0, s |-> ""]

(***************************************************************************)
(* Text: str.lower, str.upper, the `in` of two strings, str() of a number  *)
(* and of a tuple of strings, int() of a text.                             *)
(***************************************************************************)
UpperLetters == "ABCDEFGHIJKLMNOPQRSTUVWXYZ"
LowerLetters == "abcdefghijklmnopqrstuvwxyz"
DigitChars == "0123456789"

CharAt(s, i) == SubSeq(s, i, i)

HasChar(s, c) == \E i \in 1..Len(s) : CharAt(s, i) = c

IndexOf(s, c) == CHOOSE i \in 1..Len(s) : CharAt(s, i) = c

\* str.lower and str.upper change the letters and nothing else.
LowerTable ==
    [c \in {CharAt(UpperLetters, i) : i \in 1..Len(UpperLetters)} |->
        CharAt(LowerLetters, IndexOf(UpperLetters, c))]

UpperTable ==
    [c \in {CharAt(LowerLetters, i) : i \in 1..Len(LowerLetters)} |->
        CharAt(UpperLetters, IndexOf(LowerLetters, c))]

LowerChar(c) == IF c \in DOMAIN LowerTable THEN LowerTable[c] ELSE c

UpperChar(c) == IF c \in DOMAIN UpperTable THEN UpperTable[c] ELSE c

RECURSIVE StrLower(_)
StrLower(s) ==
    IF Len(s) = 0 THEN ""
    ELSE IF Len(s) = 1 THEN LowerChar(s)
    ELSE StrLower(SubSeq(s, 1, Len(s) \div 2)) \o StrLower(SubSeq(s, (Len(s) \div 2) + 1, Len(s)))

RECURSIVE StrUpper(_)
StrUpper(s) ==
    IF Len(s) = 0 THEN ""
    ELSE IF Len(s) = 1 THEN UpperChar(s)
    ELSE StrUpper(SubSeq(s, 1, Len(s) \div 2)) \o StrUpper(SubSeq(s, (Len(s) \div 2) + 1, Len(s)))

\* Python's `x in y` for two strings: x occurs in y as a contiguous piece.
StrContains(y, x) ==
    \E i \in 0..(Len(y) - Len(x)) : SubSeq(y, i + 1, i + Len(x)) = x

RECURSIVE NatStr(_)
NatStr(n) ==
    IF n < 10 THEN CharAt(DigitChars, n + 1)
    ELSE NatStr(n \div 10) \o CharAt(DigitChars, (n % 10) + 1)

IntStr(i) == IF i < 0 THEN "-" \o NatStr(0 - i) ELSE NatStr(i)

RECURSIVE PadStr(_, _)
PadStr(f, width) ==
    IF width <= 0 THEN "" ELSE PadStr(f \div 10, width - 1) \o CharAt(DigitChars, (f % 10) + 1)

RECURSIVE StripZeros(_)
StripZeros(s) ==
    IF Len(s) > 1 /\ CharAt(s, Len(s)) = "0" THEN StripZeros(SubSeq(s, 1, Len(s) - 1)) ELSE s

\* str() of a float below 10^16: positional from 10^-4 up, the trailing zeros
\* of the decimals dropped but one ('17.0', '15.0004'); below 10^-4 the one
\* digit the grid leaves and the exponent ('1e-05').
FloatStr(u) ==
    LET a == IF u < 0 THEN 0 - u ELSE u
    IN  (IF u < 0 THEN "-" ELSE "")
            \o (IF a # 0 /\ a < Pow10(FloatDigits - 4)
                THEN NatStr(a) \o "e-0" \o NatStr(FloatDigits)
                ELSE NatStr(a \div FloatUnit) \o "."
                         \o StripZeros(PadStr(a % FloatUnit, FloatDigits)))

\* str(value) as read_write and the validators apply it.
PyStrOf(v) ==
    CASE v.t = "int" -> IntStr(v.n)
      [] v.t = "float" -> FloatStr(v.n)
      [] v.t = "str" -> v.s
      [] v.t = "none" -> "None"
      [] OTHER -> "[]"

IsDigits(s) == s # "" /\ \A i \in 1..Len(s) : HasChar(DigitChars, CharAt(s, i))

RECURSIVE DigitsVal(_)
DigitsVal(s) ==
    IF s = "" THEN 0
    ELSE 10 * DigitsVal(SubSeq(s, 1, Len(s) - 1)) + (IndexOf(DigitChars, CharAt(s, Len(s))) - 1)

\* int(text): [ok, n]; ok is FALSE where Python raises ValueError.
ParseInt(s) ==
    LET signed == s # "" /\ Head(s) \in {"+", "-"}
        body == IF signed THEN Tail(s) ELSE s
    IN  IF IsDigits(body)
        THEN [ok |-> TRUE, n |-> IF signed /\ Head(s) = "-" THEN 0 - DigitsVal(body) ELSE DigitsVal(body)]
        ELSE [ok |-> FALSE, n |-> 0]

RECURSIVE JoinQuoted(_)
JoinQuoted(items) ==
    IF Len(items) = 0 THEN ""
    ELSE IF Len(items) = 1 THEN "'" \o items[1] \o "'"
    ELSE "'" \o items[1] \o "', " \o JoinQuoted(Tail(items))

\* str() of a tuple of strings: "('min', 'max')", "('a',)".
TupleRepr(items) ==
    "(" \o JoinQuoted(items) \o (IF Len(items) = 1 THEN "," ELSE "") \o ")"

\* The places of text s where character c stands.
Places(s, c) == {i \in 1..Len(s) : CharAt(s, i) = c}

\* float(text) of a plain decimal ('3', '0.01', '-1.5'): [ok, n], n in float
\* units; ok is FALSE where Python raises ValueError ('', 'x').  The texts
\* the model parses are of these two kinds only.
ParseFloat(s) ==
    LET signed == s # "" /\ Head(s) \in {"+", "-"}
        body == IF signed THEN Tail(s) ELSE s
        dots == Places(body, ".")
        dot == IF dots = {} THEN Len(body) + 1 ELSE CHOOSE i \in dots : TRUE
        whole == SubSeq(body, 1, dot - 1)
        frac == SubSeq(body, dot + 1, Len(body))
        good == /\ Cardinality(dots) <= 1
                /\ IsDigits(whole \o frac)
                /\ Len(frac) <= FloatDigits
        mag == DigitsVal(whole) * FloatUnit + DigitsVal(frac) * Pow10(FloatDigits - Len(frac))
    IN  IF good THEN [ok |-> TRUE, n |-> IF signed /\ Head(s) = "-" THEN 0 - mag ELSE mag]
        ELSE [ok |-> FALSE, n |-> 0]

\* text.split(';')
RECURSIVE Split(_)
Split(s) ==
    IF Places(s, ";") = {} THEN <<s>>
    ELSE LET i == CHOOSE p \in Places(s, ";") : \A q \in Places(s, ";") : p <= q
         IN  <<SubSeq(s, 1, i - 1)>> \o Split(SubSeq(s, i + 1, Len(s)))

\* a & b of two naturals.
RECURSIVE BitAnd(_, _)
BitAnd(a, b) ==
    IF a = 0 \/ b = 0 THEN 0
    ELSE (a % 2) * (b % 2) + 2 * BitAnd(a \div 2, b \div 2)

(***************************************************************************)
(* class Validate.  A validator returns the canonical token or an error    *)
(* VALUE (the code returns the exception object, it does not raise it):    *)
(* [ok, tok, err, cites], cites naming what the error's message formats:   *)
(* "range" or "numbers" for validation_set[0], "set" for the alias tuple,  *)
(* "type" for type(value), "valid_types"; "value" would be the value.      *)
(***************************************************************************)
Accepted(tok) == [ok |-> TRUE, tok |-> tok, err |-> "", cites |-> {}]
Rejected(kind, cites) == [ok |-> FALSE, tok |-> "", err |-> kind, cites |-> cites]

\* float(value) of an int or a float.
ToFloat(v) == IF v.t = "int" THEN v.n * FloatUnit ELSE v.n

\* round(x, ndigits): the nearest multiple of 10^-ndigits, a tie to the even one.
Round(u, ndigits) ==
    LET m == Pow10(FloatDigits - ndigits)
        q == u \div m
        r == u % m
    IN  IF 2 * r < m THEN q * m
        ELSE IF 2 * r > m THEN (q + 1) * m
        ELSE IF q % 2 = 0 THEN q * m ELSE (q + 1) * m

float_range(x, y) == y[1] <= x /\ x <= y[2]

int_range(x, y) == x \in y[1]..y[2]

\* `x in y` with y the text str(tuple).lower().
find_element(x, y) == StrContains(y, x)

\* `x in y` with y a tuple of numbers.
find_number(x, y) == \E i \in 1..Len(y) : y[i] = x

\* float_rng_and_str_tuples testing the range on the value as given.
float_rng_and_str_tuples_unrounded(validation_set, value, round_to) ==
    IF value.t \in {"float", "int"}
    THEN IF float_range(ToFloat(value), validation_set[1])
         THEN Accepted(PyStrOf(value))
         ELSE Rejected("ValueError", {"range", "set"})
    ELSE IF value.t = "str"
    THEN IF find_element(StrLower(value.s), StrLower(TupleRepr(validation_set[2])))
         THEN Accepted(StrUpper(StrLower(value.s)))
         ELSE Rejected("ValueError", {"range", "set"})
    ELSE Rejected("TypeError", {"type", "valid_types"})

float_rng_and_str_tuples(validation_set, value, round_to) ==
    IF value.t \in {"float", "int"}
    THEN LET val == Round(ToFloat(value), round_to)
         IN  IF float_range(val, validation_set[1])
             THEN Accepted(PyStrOf(value))
             ELSE Rejected("ValueError", {"range", "set"})
    ELSE IF value.t = "str"
    THEN LET val == StrLower(value.s)
         IN  IF find_element(val, StrLower(TupleRepr(validation_set[2])))
             THEN Accepted(StrUpper(val))
             ELSE Rejected("ValueError", {"range", "set"})
    ELSE Rejected("TypeError", {"type", "valid_types"})

int_rng_and_str_tuples(validation_set, value) ==
    IF value.t = "int"
    THEN IF int_range(value.n, validation_set[1])
         THEN Accepted(PyStrOf(value))
         ELSE Rejected("ValueError", {"range", "set"})
    ELSE IF value.t = "str"
    THEN LET val == StrLower(value.s)
         IN  IF find_element(val, StrLower(TupleRepr(validation_set[2])))
             THEN Accepted(StrUpper(val))
             ELSE Rejected("ValueError", {"range", "set"})
    ELSE Rejected("TypeError", {"type", "valid_types"})

float_and_str_tuples(validation_set, value) ==
    IF value.t \in {"float", "int"}
    THEN IF find_number(ToFloat(value), validation_set[1])
         THEN Accepted(PyStrOf(value))
         ELSE Rejected("ValueError", {"numbers", "set"})
    ELSE IF value.t = "str"
    THEN LET val == StrLower(value.s)
         IN  IF find_element(val, StrLower(TupleRepr(validation_set[2])))
             THEN Accepted(StrUpper(val))
             ELSE Rejected("ValueError", {"numbers", "set"})
    ELSE Rejected("TypeError", {"type", "valid_types"})

int_and_str_tuples(validation_set, value) ==
    IF value.t = "int"
    THEN IF find_number(ToFloat(value), validation_set[1])
         THEN Accepted(PyStrOf(value))
         ELSE Rejected("ValueError", {"numbers", "set"})
    ELSE IF value.t = "str"
    THEN LET val == StrLower(value.s)
         IN  IF find_element(val, StrLower(TupleRepr(validation_set[2])))
             THEN Accepted(StrUpper(val))
             ELSE Rejected("ValueError", {"numbers", "set"})
    ELSE Rejected("TypeError", {"type", "valid_types"})

str_tuple(validation_set, value) ==
    IF value.t = "str"
    THEN LET val == StrLower(value.s)
         IN  IF find_element(val, StrLower(TupleRepr(validation_set)))
             THEN Accepted(StrUpper(val))
             ELSE Rejected("ValueError", {"set"})
    ELSE Rejected("TypeError", {"type", "valid_types"})

int_rng_tuple(validation_set, value) ==
    IF value.t = "int"
    THEN IF int_range(value.n, validation_set)
         THEN Accepted(IntStr(value.n))
         ELSE Rejected("ValueError", {"range"})
    ELSE Rejected("TypeError", {"type", "valid_types"})

(***************************************************************************)
(* The validation sets of the Validate* classes; a range of floats is in   *)
(* float units.                                                            *)
(***************************************************************************)
MinMaxDef == <<"min", "max", "def", "default">>
OnOffValues == <<<<0, 1 * FloatUnit>>, <<"ON", "OFF">>>>
VoltageValues == <<<<0, 15 * FloatUnit>>, MinMaxDef>>
CurrentValues == <<<<0, 5 * FloatUnit>>, MinMaxDef>>
ImpedanceValues == <<<<0, 1 * FloatUnit>>, MinMaxDef>>
SenseValues ==
    <<"volt", "voltage", "curr", "current", "dvm", "dvmeter", "aver", "average",
      "peak", "min", "high", "low", "rms">>
MeasIntervalValues ==
    <<<<2 * Pow10(FloatDigits - 3), 2 * Pow10(FloatDigits - 1)>>, <<"max", "min", "def", "default">>>>
AverageCountValues == <<<<1, 10>>, MinMaxDef>>
ChannelValues == <<"a", "b">>
SampleLengthValues == <<<<1, 5000>>, MinMaxDef>>
SampleChannelValues == <<"current", "curr", "dvm", "min", "max", "def", "default">>
SampleTypeValues == <<"aver", "average", "peak", "min", "high", "low", "rms">>
SampleIntervalValues == <<<<1, 1 * FloatUnit>>, MinMaxDef>>
LevelDvmValues ==
    <<<<0 - 5999 * Pow10(FloatDigits - 3), 25 * FloatUnit>>, <<"auto", "min", "max", "def", "default">>>>
Register8Values == <<0, 128>>
Register16Values == <<0, 65535>>
PresetValues == <<0, 9>>
RelayNumberValues == <<1, 4>>

ValidatorNames ==
    {"on_off", "voltage", "current", "impedance", "sense", "measurement_interval",
     "average_count", "channel", "sample_length", "sample_channel", "sample_type",
     "sample_interval", "level_dvm", "register_8", "register_16", "preset",
     "relay_number"}

\* validator(value) for the bound method the accessor hands to read_write.
Validator(name, value) ==
    CASE name = "on_off" -> int_and_str_tuples(OnOffValues, value)
      [] name = "voltage" -> float_rng_and_str_tuples(VoltageValues, value, 3)
      [] name = "current" -> float_rng_and_str_tuples(CurrentValues, value, 3)
      [] name = "impedance" -> float_rng_and_str_tuples(ImpedanceValues, value, 2)
      [] name = "sense" -> str_tuple(SenseValues, value)
      [] name = "measurement_interval" -> float_rng_and_str_tuples(MeasIntervalValues, value, 3)
      [] name = "average_count" -> int_rng_and_str_tuples(AverageCountValues, value)
      [] name = "channel" -> str_tuple(ChannelValues, value)
      [] name = "sample_length" -> int_rng_and_str_tuples(SampleLengthValues, value)
      [] name = "sample_channel" -> str_tuple(SampleChannelValues, value)
      [] name = "sample_type" -> str_tuple(SampleTypeValues, value)
      [] name = "sample_interval" -> float_rng_and_str_tuples(SampleIntervalValues, value, 5)
      [] name = "level_dvm" -> float_rng_and_str_tuples(LevelDvmValues, value, 3)
      [] name = "register_8" -> int_rng_tuple(Register8Values, value)
      [] name = "register_16" -> int_rng_tuple(Register16Values, value)
      [] name = "preset" -> int_rng_tuple(PresetValues, value)
      [] name = "relay_number" -> int_rng_tuple(RelayNumberValues, value)

(***************************************************************************)
(* The instrument behind the bus.  Its registers are state; what it        *)
(* answers to a parameter query is its own choice (it may clamp or round   *)
(* what was written), drawn from DeviceAnswers.                            *)
(***************************************************************************)
VARIABLES
    dev,        \* the instrument's registers: [enab, sre, event]
    built,      \* the components constructed so far
    chan,       \* self._channel of the Channel object and its Measure, Log, Trigger
    values,     \* values[c]: the dict self.values of component c
    responses,  \* every text the instrument has answered to a constructor, a get or a set
    call,       \* the call being observed: [op, acc, value]
    bus,        \* the bus operations of that call, in order: [op, cmd]
    ret,        \* what the call returned
    diag,       \* what the call printed
    raised,     \* the exception the call let out, "" for none
    ncalls,     \* calls made so far
    pc,         \* start_sample: the position of the run
    run,        \* start_sample: the locals of the run
    log_data,   \* Log.log_data
    vin,        \* a validator's input: [name, value]
    vout,       \* and what it returned
    parked      \* two Logs on the connection: the run of the Log that is not stepping

vars ==
    <<dev, built, chan, values, responses, call, bus, ret, diag, raised, ncalls,
      pc, run, log_data, vin, vout, parked>>

BusWrite(cmd) == [op |-> "write", cmd |-> cmd]
BusQuery(cmd) == [op |-> "query", cmd |-> cmd]

EmptyDict == [k \in {} |-> ""]

\* d[key] = text of a Python dict, the key added if new.
DictPut(d, key, text) == [k \in DOMAIN d \cup {key} |-> IF k = key THEN text ELSE d[k]]

\* The text before and after the first space of a command.
CmdToken(cmd) == IF HasChar(cmd, " ") THEN SubSeq(cmd, 1, IndexOf(cmd, " ") - 1) ELSE cmd
CmdArg(cmd) == IF HasChar(cmd, " ") THEN SubSeq(cmd, IndexOf(cmd, " ") + 1, Len(cmd)) ELSE ""

\* What the instrument may answer to a query, in the register state d.
\* Channel A is left at the sample interval 0.01, channel B at 0.1.
DeviceAnswers(d, query) ==
    CASE query = ":STAT:MEAS:ENAB?" -> {IntStr(d.enab)}
      [] query = ":STAT:MEAS:EVEN?" -> {IntStr(d.event)}
      [] query = "*SRE?" -> {IntStr(d.sre)}
      [] query \in {":SOUR:A:VOLT?", ":SOUR:B:VOLT?"} -> {"0.000", "15.000"}
      [] query \in {":OUTP:A:STAT?", ":OUTP:B:STAT?"} -> {"0", "1"}
      [] query \in {":SENS:A:FUNC?", ":SENS:B:FUNC?"} -> {"VOLT", "CURR"}
      [] query \in {":SENS:A:PULS:MEAS:CHAN?", ":SENS:B:PULS:MEAS:CHAN?"} -> {"CURR", "DVM"}
      [] query \in {":SENS:A:PULS:SAMP:LENG?", ":SENS:B:PULS:SAMP:LENG?"} -> {"3"}
      [] query = ":SENS:A:PULS:SAMP:INT?" -> {"0.01"}
      [] query = ":SENS:B:PULS:SAMP:INT?" -> {"0.1"}
      [] query \in {":OUTP:REL1?", ":OUTP:REL2?", ":OUTP:REL3?", ":OUTP:REL4?"} -> {"0", "1"}
      [] query \in {":FETC:A:ARR?", ":FETC:B:ARR?"} -> {"1.0;2.0;3.0", "0.5", "", "1.0;x"}
      [] OTHER -> {"0"}

\* The registers after the instrument has taken a bus operation.
DeviceAfter(d, b) ==
    LET tok == CmdToken(b.cmd)
        arg == ParseInt(CmdArg(b.cmd))
    IN  CASE b.op = "query" /\ b.cmd = ":STAT:MEAS:EVEN?" -> [d EXCEPT !.event = 0]
          [] b.op = "write" /\ tok = ":STAT:MEAS:ENAB" /\ arg.ok -> [d EXCEPT !.enab = arg.n]
          [] b.op = "write" /\ tok = "*SRE" /\ arg.ok -> [d EXCEPT !.sre = arg.n]
          [] OTHER -> d

RECURSIVE DeviceAfterAll(_, _)
DeviceAfterAll(d, ops) ==
    IF Len(ops) = 0 THEN d ELSE DeviceAfterAll(DeviceAfter(d, Head(ops)), Tail(ops))

(***************************************************************************)
(* class Command.  read_write and read are computed as effects: the bus    *)
(* operations in order, the value returned, what is printed, and the       *)
(* response stored under value_key when a dict is passed.  `answer` is     *)
(* what the instrument answers if the call queries it.                     *)
(***************************************************************************)
Effect(ops, result, printed, stores, text) ==
    [bus |-> ops, ret |-> result, diag |-> printed, store |-> stores, stored |-> text]

\* read_write re-querying after every accepted write, dict or no dict.
read_write_always_requeries(query, write, validator, value, has_dict, answer) ==
    IF value = PyNone
    THEN Effect(<<BusQuery(query)>>, PyStr(answer), <<>>, FALSE, "")
    ELSE IF validator # "" /\ ~Validator(validator, value).ok
    THEN Effect(<<>>, PyNone, <<[kind |-> "WARNING", error |-> Validator(validator, value)]>>, FALSE, "")
    ELSE Effect(<<BusWrite(write \o " " \o PyStrOf(value)), BusQuery(query)>>,
                PyNone, <<>>, has_dict, answer)

\* read_write storing the text it sent instead of the instrument's answer.
read_write_stores_input(query, write, validator, value, has_dict, answer) ==
    IF value = PyNone
    THEN Effect(<<BusQuery(query)>>, PyStr(answer), <<>>, FALSE, "")
    ELSE IF validator # "" /\ ~Validator(validator, value).ok
    THEN Effect(<<>>, PyNone, <<[kind |-> "WARNING", error |-> Validator(validator, value)]>>, FALSE, "")
    ELSE Effect(<<BusWrite(write \o " " \o PyStrOf(value))>>
                    \o (IF has_dict THEN <<BusQuery(query)>> ELSE <<>>),
                PyNone, <<>>, has_dict, PyStrOf(value))

\* read_write printing the validator's error and writing all the same.
read_write_writes_rejected(query, write, validator, value, has_dict, answer) ==
    IF value = PyNone
    THEN Effect(<<BusQuery(query)>>, PyStr(answer), <<>>, FALSE, "")
    ELSE Effect(<<BusWrite(write \o " " \o PyStrOf(value))>>
                    \o (IF has_dict THEN <<BusQuery(query)>> ELSE <<>>),
                PyNone,
                IF validator # "" /\ ~Validator(validator, value).ok
                THEN <<[kind |-> "WARNING", error |-> Validator(validator, value)]>>
                ELSE <<>>,
                has_dict, answer)

\* read_write refreshing the dict on a get as well.
read_write_get_refreshes(query, write, validator, value, has_dict, answer) ==
    IF value = PyNone
    THEN Effect(<<BusQuery(query)>>, PyStr(answer), <<>>, has_dict, answer)
    ELSE IF validator # "" /\ ~Validator(validator, value).ok
    THEN Effect(<<>>, PyNone, <<[kind |-> "WARNING", error |-> Validator(validator, value)]>>, FALSE, "")
    ELSE Effect(<<BusWrite(write \o " " \o PyStrOf(value))>>
                    \o (IF has_dict THEN <<BusQuery(query)>> ELSE <<>>),
                PyNone, <<>>, has_dict, answer)

\* validator = "" stands for None, value = PyNone for None, has_dict for
\* value_dict is not None.
read_write(query, write, validator, value, has_dict, answer) ==
    IF value = PyNone
    THEN Effect(<<BusQuery(query)>>, PyStr(answer), <<>>, FALSE, "")
    ELSE IF validator # ""
    THEN LET val == Validator(validator, value)
         IN  IF ~val.ok
             THEN Effect(<<>>, PyNone, <<[kind |-> "WARNING", error |-> val]>>, FALSE, "")
             ELSE Effect(<<BusWrite(write \o " " \o PyStrOf(value))>>
                             \o (IF has_dict THEN <<BusQuery(query)>> ELSE <<>>),
                         PyNone, <<>>, has_dict, answer)
    ELSE Effect(<<BusWrite(write \o " " \o PyStrOf(value))>>
                    \o (IF has_dict THEN <<BusQuery(query)>> ELSE <<>>),
                PyNone, <<>>, has_dict, answer)

read(query, answer) == Effect(<<BusQuery(query)>>, PyStr(answer), <<>>, FALSE, "")

(***************************************************************************)
(* The accessors: the (query, write, validator, dict, key) each hands to   *)
(* read_write.  ch is self._channel, relay is self.values['relay'].        *)
(***************************************************************************)
Accessor(c, q, w, v, k, d) ==
    [comp |-> c, query |-> q, write |-> w, validator |-> v, key |-> k, has_dict |-> d]

Channel_output(ch) ==
    Accessor("channel", ":OUTP:" \o ch \o ":STAT?", ":OUT:" \o ch, "on_off", "output", TRUE)
Channel_voltage(ch) ==
    Accessor("channel", ":SOUR:" \o ch \o ":VOLT?", ":SOUR:" \o ch \o ":VOLT", "voltage", "voltage", TRUE)
Measure_sense(ch) ==
    Accessor("measure", ":SENS:" \o ch \o ":FUNC?", ":SENS:" \o ch \o ":FUNC", "sense", "sense", TRUE)
Log_sample_length(ch) ==
    Accessor("log", ":SENS:" \o ch \o ":PULS:SAMP:LENG?", ":SENS:" \o ch \o ":PULS:SAMP:LENG",
             "sample_length", "sample_length", TRUE)
Log_sample_channel(ch) ==
    Accessor("log", ":SENS:" \o ch \o ":PULS:MEAS:CHAN?", ":SENS:" \o ch \o ":PULS:MEAS:CHAN",
             "sample_channel", "sample_source", TRUE)
Log_sample_interval(ch) ==
    Accessor("log", ":SENS:" \o ch \o ":PULS:SAMP:INT?", ":SENS:" \o ch \o ":PULS:SAMP:INT",
             "sample_interval", "sample_interval", TRUE)
Relay_enable(relay) ==
    Accessor("relay", ":OUTP:REL" \o relay \o "?", ":OUTP:REL" \o relay, "on_off", "state", TRUE)
Status_meas_enable_reg ==
    Accessor("status", ":STAT:MEAS:ENAB?", ":STAT:MEAS:ENAB", "register_16", "", FALSE)
Common_sre == Accessor("common", "*SRE?", "*SRE", "register_8", "", FALSE)

\* The accessors a caller can reach on the components built so far.
Accessors ==
    (IF "channel" \in built
     THEN {Channel_output(chan), Channel_voltage(chan), Measure_sense(chan),
           Log_sample_length(chan), Log_sample_channel(chan), Log_sample_interval(chan)}
     ELSE {})
    \cup (IF "relay" \in built THEN {Relay_enable(values["relay"]["relay"])} ELSE {})
    \cup {Status_meas_enable_reg, Common_sre}

\* The (key, query) pairs the constructors fill self.values from, in order.
ChannelParams(ch) ==
    <<<<"output", ":OUTP:" \o ch \o ":STAT?">>,
      <<"voltage", ":SOUR:" \o ch \o ":VOLT?">>,
      <<"current", ":SOUR:" \o ch \o ":CURR?">>,
      <<"current_range", ":SENS:" \o ch \o ":CURR:RANG?">>,
      <<"measurement_interval", ":SENS:" \o ch \o ":MEAS:INT?">>,
      <<"average_count", ":SENS:" \o ch \o ":AVER:COUN?">>,
      <<"impedance", ":OUTP:" \o ch \o ":IMP?">>,
      <<"output_bandwidth", ":OUTP:" \o ch \o ":BAND?">>>>

MeasureParams(ch) == <<<<"sense", ":SENS:" \o ch \o ":FUNC?">>>>

LogParams(ch) ==
    <<<<"sampling_on", ":SENS:" \o ch \o ":PULS:MEAS:STAR?">>,
      <<"sample_channel", ":SENS:" \o ch \o ":PULS:MEAS:CHAN?">>,
      <<"sample_type", ":SENS:" \o ch \o ":PULS:MEAS:TYPE?">>,
      <<"sample_interval", ":SENS:" \o ch \o ":PULS:SAMP:INT?">>,
      <<"sample_length", ":SENS:" \o ch \o ":PULS:SAMP:LENG?">>>>

TriggerParams(ch) ==
    <<<<"source", ":SENS:" \o ch \o ":PULS:TRIG:SOUR?">>,
      <<"level_low", ":SENS:" \o ch \o ":PULS:TRIG:LEV:LOW?">>,
      <<"level_high", ":SENS:" \o ch \o ":PULS:TRIG:LEV:HIGH?">>,
      <<"level_dvm", ":SENS:" \o ch \o ":PULS:TRIG:LEV:DVM?">>,
      <<"slope", ":SENS:" \o ch \o ":PULS:TRIG:SLOP?">>,
      <<"count", ":SENS:" \o ch \o ":PULS:TRIG:COUN?">>,
      <<"offset", ":SENS:" \o ch \o ":PULS:TRIG:OFFS?">>,
      <<"timeout", ":SENS:" \o ch \o ":PULS:TRIG:TIM?">>>>

\* The dicts a constructor can end with: each key holds an answer to its query.
RECURSIVE QueriedDicts(_, _)
QueriedDicts(d, params) ==
    IF Len(params) = 0 THEN {EmptyDict}
    ELSE {DictPut(rest, params[1][1], a) :
              a \in DeviceAnswers(d, params[1][2]), rest \in QueriedDicts(d, Tail(params))}

RECURSIVE QueriesOf(_)
QueriesOf(params) ==
    IF Len(params) = 0 THEN <<>> ELSE <<BusQuery(params[1][2])>> \o QueriesOf(Tail(params))

DictTexts(d) == {d[k] : k \in DOMAIN d}

(***************************************************************************)
(* The calls a user of the driver makes.  Every call is one step: it       *)
(* starts from an empty bus record and ends when control is back.          *)
(***************************************************************************)
\* Calls a behaviour makes at most.
MaxCalls == 2

Components == {"channel", "measure", "log", "trigger", "relay"}

NoCall == [op |-> "none", acc |-> Accessor("", "", "", "", "", FALSE), value |-> PyNone, answer |-> ""]

NoRun ==
    [channel |-> "", prerun |-> 0, presre |-> 0, enable_answer |-> "", enable_reg |-> 0, waited |-> "",
     event_reg |-> 0, outcome |-> "", failed |-> "", fetched |-> ""]

\* A Log that has not run: its channel, the position and the locals of its
\* run, its log_data, and what its call printed, raised, returned and sent.
IdleContext(ch) ==
    [chan |-> ch, pc |-> "idle", run |-> NoRun, log_data |-> EmptyDict, diag |-> <<>>,
     raised |-> "", ret |-> PyNone, bus |-> <<>>]

\* No second Log is running on the connection.  original and overlapped
\* are history: the Enable register before either run, and whether a run
\* was ever left in mid-flight for the other Log to step.
NoParked == [ctx |-> IdleContext(""), original |-> 0, overlapped |-> FALSE]

\* The values a caller passes to a set, by validator.
SetInputs(validator) ==
    CASE validator = "voltage" ->
             {PyFloat(15 * FloatUnit + 40), PyFloat(17 * FloatUnit), PyInt(3),
              PyStr("max"), PyStr("Ma"), PyList}
      [] validator = "on_off" -> {PyInt(1), PyInt(2), PyStr("on"), PyStr("f")}
      [] validator = "sense" -> {PyStr("CURR"), PyStr("amps"), PyInt(1)}
      [] validator = "sample_length" -> {PyInt(100), PyInt(0), PyStr("Min"), PyFloat(FloatUnit)}
      [] validator = "sample_channel" -> {PyStr("curr"), PyStr("dvm"), PyStr("volt")}
      [] validator = "sample_interval" -> {PyFloat(Pow10(FloatDigits - 2)), PyFloat(2 * FloatUnit)}
      [] validator = "register_16" -> {PyInt(56), PyInt(65536), PyStr("56")}
      [] validator = "register_8" -> {PyInt(1), PyInt(255), PyFloat(FloatUnit)}
      [] OTHER -> {PyInt(1)}

ChannelInputs == {PyStr("A"), PyStr("b"), PyStr("c"), PyInt(1)}
RelayInputs == {PyInt(0), PyInt(1), PyInt(3), PyStr("2")}
ReadQueries == {":STAT:MEAS:EVEN?", "*IDN?"}

QueryAnswered(ops, answer) == IF \E i \in 1..Len(ops) : ops[i].op = "query" THEN {answer} ELSE {}

\* A get or set through accessor acc: Command.read_write (lines 1170-1192).
ReadWriteCall(acc, value) ==
    LET writes == SelectSeq(read_write(acc.query, acc.write, acc.validator, value,
                                       acc.has_dict, "").bus,
                            LAMBDA b : b.op = "write")
    IN  \E answer \in DeviceAnswers(DeviceAfterAll(dev, writes), acc.query) :
        \E eff \in {read_write(acc.query, acc.write, acc.validator, value, acc.has_dict, answer)} :
                /\ bus' = eff.bus
                /\ dev' = DeviceAfterAll(dev, eff.bus)
                /\ ret' = eff.ret
                /\ diag' = eff.diag
                /\ values' = IF eff.store
                             THEN [values EXCEPT ![acc.comp] = DictPut(@, acc.key, eff.stored)]
                             ELSE values
                /\ responses' = responses \cup QueryAnswered(eff.bus, answer)
                /\ call' = [op |-> IF value = PyNone THEN "get" ELSE "set",
                            acc |-> acc, value |-> value, answer |-> answer]
                /\ raised' = ""
                /\ ncalls' = ncalls + 1
                /\ UNCHANGED <<built, chan, pc, run, log_data, vin, vout, parked>>

Get ==
    /\ ncalls < MaxCalls
    /\ pc = "idle"
    /\ \E acc \in Accessors : ReadWriteCall(acc, PyNone)

Set ==
    /\ ncalls < MaxCalls
    /\ pc = "idle"
    /\ \E acc \in Accessors : \E value \in SetInputs(acc.validator) : ReadWriteCall(acc, value)

\* Command.read (lines 1194-1195) through an accessor that only reads.
Read ==
    /\ ncalls < MaxCalls
    /\ pc = "idle"
    /\ \E query \in ReadQueries : \E answer \in DeviceAnswers(dev, query) :
           \E eff \in {read(query, answer)} :
               /\ bus' = eff.bus
               /\ dev' = DeviceAfterAll(dev, eff.bus)
               /\ ret' = eff.ret
               /\ diag' = eff.diag
               /\ responses' = responses \cup {answer}
               /\ call' = [op |-> "read", acc |-> Accessor("", query, "", "", "", FALSE),
                           value |-> PyNone, answer |-> answer]
               /\ raised' = ""
               /\ ncalls' = ncalls + 1
               /\ UNCHANGED <<built, chan, values, pc, run, log_data, vin, vout, parked>>

\* Channel.__init__ (lines 142-163), with the Measure, Log and Trigger it builds.
ConstructChannel ==
    /\ ncalls < MaxCalls
    /\ pc = "idle"
    /\ \E value \in ChannelInputs : \E val \in {Validator("channel", value)} :
               /\ call' = [NoCall EXCEPT !.op = "Channel", !.value = value]
               /\ ncalls' = ncalls + 1
               /\ ret' = PyNone
               /\ diag' = <<>>
               /\ IF ~val.ok
                  THEN /\ raised' = val.err
                       /\ bus' = <<>>
                       /\ UNCHANGED <<dev, built, chan, values, responses, log_data>>
                  ELSE \E cd \in QueriedDicts(dev, ChannelParams(val.tok)) :
                       \E md \in QueriedDicts(dev, MeasureParams(val.tok)) :
                       \E ld \in QueriedDicts(dev, LogParams(val.tok)) :
                       \E td \in QueriedDicts(dev, TriggerParams(val.tok)) :
                           /\ raised' = ""
                           /\ chan' = val.tok
                           /\ built' = built \cup {"channel", "measure", "log", "trigger"}
                           /\ values' = [values EXCEPT !["channel"] = cd, !["measure"] = md,
                                                       !["log"] = ld, !["trigger"] = td]
                           /\ log_data' = EmptyDict
                           /\ bus' = QueriesOf(ChannelParams(val.tok)) \o QueriesOf(MeasureParams(val.tok))
                                         \o QueriesOf(LogParams(val.tok)) \o QueriesOf(TriggerParams(val.tok))
                           /\ responses' = responses \cup DictTexts(cd) \cup DictTexts(md)
                                               \cup DictTexts(ld) \cup DictTexts(td)
                           /\ UNCHANGED dev
               /\ UNCHANGED <<pc, run, vin, vout, parked>>

\* Relay.__init__ (lines 548-557).
ConstructRelay ==
    /\ ncalls < MaxCalls
    /\ pc = "idle"
    /\ \E num \in RelayInputs : \E num_validated \in {Validator("relay_number", num)} :
               /\ call' = [NoCall EXCEPT !.op = "Relay", !.value = num]
               /\ ncalls' = ncalls + 1
               /\ ret' = PyNone
               /\ diag' = <<>>
               /\ IF ~num_validated.ok
                  THEN /\ raised' = num_validated.err
                       /\ bus' = <<>>
                       /\ UNCHANGED <<built, values, responses>>
                  ELSE LET acc == Relay_enable(num_validated.tok)
                       IN  \E answer \in DeviceAnswers(dev, acc.query) :
                           \E eff \in {read_write(acc.query, acc.write, acc.validator,
                                                  PyNone, acc.has_dict, answer)} :
                                   /\ raised' = ""
                                   /\ built' = built \cup {"relay"}
                                   /\ values' = [values EXCEPT !["relay"] =
                                          DictPut(DictPut(EmptyDict, "relay", num_validated.tok),
                                                  "state", eff.ret.s)]
                                   /\ bus' = eff.bus
                                   /\ responses' = responses \cup {answer}
               /\ UNCHANGED <<dev, chan, pc, run, log_data, vin, vout, parked>>

EnableValues == {0, 21, 65535}

Init ==
    /\ dev \in [enab : EnableValues, sre : {0}, event : {32}]
    /\ built = {}
    /\ chan = ""
    /\ values = [c \in Components |-> EmptyDict]
    /\ responses = {}
    /\ call = NoCall
    /\ bus = <<>>
    /\ ret = PyNone
    /\ diag = <<>>
    /\ raised = ""
    /\ ncalls = 0
    /\ pc = "idle"
    /\ run = NoRun
    /\ log_data = EmptyDict
    /\ vin = [name |-> "", value |-> PyNone]
    /\ vout = Accepted("")
    /\ parked = NoParked

Next == Get \/ Set \/ Read \/ ConstructChannel \/ ConstructRelay

Spec == Init /\ [][Next]_vars

(***************************************************************************)
(* The validators on their own: an input is drawn, the validator is        *)
(* applied to it.                                                          *)
(***************************************************************************)
\* Longest text built letter by letter as an input.
MaxStrLen == 3
\* Numeric inputs lie up to NumSpan steps on each side of a range's ends.
NumSpan == 9

Pending == Rejected("pending", {})

\* round_to of the validators built on float_rng_and_str_tuples.
RoundTo(name) ==
    CASE name \in {"voltage", "current", "measurement_interval", "level_dvm"} -> 3
      [] name = "impedance" -> 2
      [] name = "sample_interval" -> 5

\* validation_set of the validators that have a range and an alias set.
RangedSet(name) ==
    CASE name = "voltage" -> VoltageValues
      [] name = "current" -> CurrentValues
      [] name = "impedance" -> ImpedanceValues
      [] name = "measurement_interval" -> MeasIntervalValues
      [] name = "sample_interval" -> SampleIntervalValues
      [] name = "level_dvm" -> LevelDvmValues
      [] name = "average_count" -> AverageCountValues
      [] name = "sample_length" -> SampleLengthValues
      [] name = "on_off" -> OnOffValues

FloatRangeValidators ==
    {"voltage", "current", "impedance", "measurement_interval", "sample_interval", "level_dvm"}
AliasOnlyValidators == {"sense", "channel", "sample_channel", "sample_type"}
AliasValidators ==
    FloatRangeValidators \cup AliasOnlyValidators \cup {"average_count", "sample_length", "on_off"}

\* The alias set of a validator that has one.
AliasSet(name) ==
    CASE name = "sense" -> SenseValues
      [] name = "channel" -> ChannelValues
      [] name = "sample_channel" -> SampleChannelValues
      [] name = "sample_type" -> SampleTypeValues
      [] OTHER -> RangedSet(name)[2]

TextAlphabet == {"m", "A", "x", "'", " ", "o"}

RECURSIVE Texts(_)
Texts(n) ==
    IF n = 0 THEN {""}
    ELSE LET shorter == Texts(n - 1) IN shorter \cup {s \o c : s \in shorter, c \in TextAlphabet}

Capitalized(s) == IF s = "" THEN "" ELSE UpperChar(Head(s)) \o Tail(s)

AliasTexts(name) ==
    UNION {{AliasSet(name)[i], StrUpper(AliasSet(name)[i]), Capitalized(AliasSet(name)[i])} :
               i \in 1..Len(AliasSet(name))}

\* A decimal tie has no float of its own: the float nearest to it lies on one
\* side, and which side is not a matter of the validator.  The inputs leave
\* the ties out.
IsTie(u, ndigits) == 2 * (u % Pow10(FloatDigits - ndigits)) = Pow10(FloatDigits - ndigits)

NumOffsets == {d * 10 : d \in (0 - NumSpan)..NumSpan} \cup {d * 100 : d \in (0 - NumSpan)..NumSpan}

FloatInputs(name) ==
    {PyFloat(u) : u \in {u \in {RangedSet(name)[1][e] + d : e \in 1..2, d \in NumOffsets} :
                             ~IsTie(u, RoundTo(name))}}

IntInputs == {PyInt(i) : i \in {0 - 6, 0 - 1, 0, 1, 5, 6, 15, 16, 17, 25, 26}}

\* One input of each type, for every validator.
TypeInputs ==
    {PyNone, PyList, PyInt(1), PyInt(6000), PyFloat(FloatUnit), PyFloat(FloatUnit + FloatUnit \div 2),
     PyStr("1"), PyStr("volt"), PyStr("Default")}

ValidateInputs ==
    {[name |-> n, value |-> v] : n \in AliasValidators, v \in {PyStr(t) : t \in Texts(MaxStrLen)}}
    \cup {[name |-> n, value |-> v] : n \in ValidatorNames, v \in TypeInputs}
    \cup UNION {{[name |-> n, value |-> PyStr(t)] : t \in AliasTexts(n)} : n \in AliasValidators}
    \cup UNION {{[name |-> n, value |-> v] : v \in FloatInputs(n) \cup IntInputs} : n \in FloatRangeValidators}
    \cup {[name |-> n, value |-> PyList] : n \in FloatRangeValidators}

InitValidate ==
    /\ vin \in ValidateInputs
    /\ vout = Pending
    /\ dev = [enab |-> 0, sre |-> 0, event |-> 0]
    /\ built = {}
    /\ chan = ""
    /\ values = [c \in Components |-> EmptyDict]
    /\ responses = {}
    /\ call = NoCall
    /\ bus = <<>>
    /\ ret = PyNone
    /\ diag = <<>>
    /\ raised = ""
    /\ ncalls = 0
    /\ pc = "validate"
    /\ run = NoRun
    /\ log_data = EmptyDict
    /\ parked = NoParked

\* validator(value), as read_write line 1177 calls it.
Validate ==
    /\ pc = "validate"
    /\ vout = Pending
    /\ vout' = Validator(vin.name, vin.value)
    /\ UNCHANGED <<dev, built, chan, values, responses, call, bus, ret, diag, raised, ncalls,
                   pc, run, log_data, vin, parked>>

SpecValidate == InitValidate /\ [][Validate]_vars

(***************************************************************************)
(* Log.start_sample (lines 348-404).  The run is a sequence of bus         *)
(* operations with one suspension, the wait for the service request; each  *)
(* bus operation is a step, pc the position of the run.  An exception is   *)
(* not caught anywhere in the run: it ends the run where it is raised      *)
(* (pc back to "idle", raised naming it).  run keeps the locals, and       *)
(* what the run observed: prerun and presre (the Enable register and the   *)
(* SRE register when the run began), enable_answer (the text its first Enable query returned),       *)
(* waited (how the wait ended), failed (what raised), fetched (the text    *)
(* the array fetch answered).                                              *)
(***************************************************************************)
\* The reading_avail bits of the two channels exchanged.
reading_avail_swapped(ch) == IF ch = "A" THEN 256 ELSE 32

\* The arm token of channel A for either channel.
pulse_start_of_A(ch) == "*AARM"

\* The enable mask of channel A for either channel.
enable_mask_of_A(ch) == 56

\* One trigger_timeout bit for both channels.
trigger_timeout_shared(ch) == 16

reading_avail(ch) == IF ch = "A" THEN 32 ELSE 256
trigger_timeout(ch) == IF ch = "A" THEN 16 ELSE 128
meas_overflow(ch) == IF ch = "A" THEN 8 ELSE 64
enable_mask(ch) == IF ch = "A" THEN 56 ELSE 448
pulse_start(ch) == IF ch = "A" THEN "*AARM" ELSE "*BARM"

\* What the Measurement Event register may have latched when the wait ends.
EventValues == {0, 8, 16, 24, 32, 40, 48, 56, 64, 128, 192, 256, 288, 320, 384, 448}

RunVars == <<built, chan, values, call, ncalls, vin, vout, parked>>

\* A bus operation of the run through read_write, read or write: the bus
\* record and the instrument.
RunBus(ops) ==
    /\ bus' = bus \o ops
    /\ dev' = DeviceAfterAll(dev, ops)
    /\ UNCHANGED responses

\* The run beginning without log_data.clear().
StartSample_keeps_data ==
    /\ pc = "idle"
    /\ "log" \in built
    /\ log_data' = log_data
    /\ bus' = <<BusWrite(":SYST:CLE")>>
    /\ run' = [NoRun EXCEPT !.channel = chan, !.prerun = dev.enab, !.presre = dev.sre]
    /\ diag' = <<>>
    /\ raised' = ""
    /\ ret' = PyNone
    /\ pc' = "clear_event"
    /\ UNCHANGED <<dev, responses>>
    /\ UNCHANGED RunVars

\* lines 349-351: log_data.clear(), status.clear_error_queue()
StartSample ==
    /\ pc = "idle"
    /\ "log" \in built
    /\ log_data' = EmptyDict
    /\ bus' = <<BusWrite(":SYST:CLE")>>
    /\ run' = [NoRun EXCEPT !.channel = chan, !.prerun = dev.enab, !.presre = dev.sre]
    /\ diag' = <<>>
    /\ raised' = ""
    /\ ret' = PyNone
    /\ pc' = "clear_event"
    /\ UNCHANGED <<dev, responses>>
    /\ UNCHANGED RunVars

\* line 353: status.get_meas_event_reg(), the answer dropped
ClearEvent ==
    /\ pc = "clear_event"
    /\ \E answer \in DeviceAnswers(dev, ":STAT:MEAS:EVEN?") :
           RunBus(read(":STAT:MEAS:EVEN?", answer).bus)
    /\ pc' = "save_enable"
    /\ UNCHANGED <<run, log_data, diag, raised, ret>>
    /\ UNCHANGED RunVars

\* line 355: enable_reg = int(self.status.meas_enable_reg())
SaveEnable ==
    /\ pc = "save_enable"
    /\ \E answer \in DeviceAnswers(dev, Status_meas_enable_reg.query) :
       \E eff \in {read_write(Status_meas_enable_reg.query, Status_meas_enable_reg.write,
                              Status_meas_enable_reg.validator, PyNone, FALSE, answer)} :
           /\ RunBus(eff.bus)
           /\ IF ParseInt(eff.ret.s).ok
              THEN /\ run' = [run EXCEPT !.enable_answer = answer, !.enable_reg = ParseInt(eff.ret.s).n]
                   /\ pc' = "program"
                   /\ raised' = ""
              ELSE /\ run' = [run EXCEPT !.enable_answer = answer, !.failed = "parse"]
                   /\ pc' = "idle"
                   /\ raised' = "ValueError"
    /\ UNCHANGED <<log_data, diag, ret>>
    /\ UNCHANGED RunVars

\* lines 358-369: self.status.meas_enable_reg(56) or (448)
ProgramEnable ==
    /\ pc = "program"
    /\ \E eff \in {read_write(Status_meas_enable_reg.query, Status_meas_enable_reg.write,
                              Status_meas_enable_reg.validator, PyInt(enable_mask(run.channel)),
                              FALSE, "")} :
           /\ RunBus(eff.bus)
           /\ diag' = diag \o eff.diag
    /\ pc' = "sre_on"
    /\ UNCHANGED <<run, log_data, raised, ret>>
    /\ UNCHANGED RunVars

\* lines 370-373: self.com.sre(1)
SreOn ==
    /\ pc = "sre_on"
    /\ \E eff \in {read_write(Common_sre.query, Common_sre.write, Common_sre.validator,
                              PyInt(1), FALSE, "")} :
           /\ RunBus(eff.bus)
           /\ diag' = diag \o eff.diag
    /\ pc' = "barrier"
    /\ UNCHANGED <<run, log_data, raised, ret>>
    /\ UNCHANGED RunVars

\* line 376: self.com.wait()
Barrier ==
    /\ pc = "barrier"
    /\ RunBus(<<BusWrite("*WAI")>>)
    /\ pc' = "arm"
    /\ UNCHANGED <<run, log_data, diag, raised, ret>>
    /\ UNCHANGED RunVars

\* lines 377-378: self._command.write(pulse_start)
Arm ==
    /\ pc = "arm"
    /\ RunBus(<<BusWrite(pulse_start(run.channel))>>)
    /\ pc' = "wait"
    /\ UNCHANGED <<run, log_data, diag, raised, ret>>
    /\ UNCHANGED RunVars

\* line 381: self._bus.wait_for_srq(10000) returns, the request has come
SrqArrives ==
    /\ pc = "wait"
    /\ \E e \in EventValues : dev' = [dev EXCEPT !.event = e]
    /\ run' = [run EXCEPT !.waited = "srq"]
    /\ pc' = "sre_off"
    /\ UNCHANGED <<bus, responses, log_data, diag, raised, ret>>
    /\ UNCHANGED RunVars

\* line 381: the 10000 ms pass and the transport returns
SrqTimeoutReturns ==
    /\ pc = "wait"
    /\ \E e \in EventValues : dev' = [dev EXCEPT !.event = e]
    /\ run' = [run EXCEPT !.waited = "timeout"]
    /\ pc' = "sre_off"
    /\ UNCHANGED <<bus, responses, log_data, diag, raised, ret>>
    /\ UNCHANGED RunVars

\* line 381: the 10000 ms pass and the transport raises (pyvisa: VisaIOError)
SrqTimeoutRaises ==
    /\ pc = "wait"
    /\ \E e \in EventValues : dev' = [dev EXCEPT !.event = e]
    /\ run' = [run EXCEPT !.waited = "timeout_raised", !.failed = "wait"]
    /\ pc' = "idle"
    /\ raised' = "VisaIOError"
    /\ UNCHANGED <<bus, responses, log_data, diag, ret>>
    /\ UNCHANGED RunVars

\* The clear sent only when the request has come.
SreOff_only_on_srq ==
    /\ pc = "sre_off"
    /\ \E eff \in {read_write(Common_sre.query, Common_sre.write, Common_sre.validator,
                              PyInt(0), FALSE, "")} :
           /\ RunBus(IF run.waited = "srq" THEN eff.bus ELSE <<>>)
           /\ diag' = diag \o eff.diag
    /\ pc' = "read_event"
    /\ UNCHANGED <<run, log_data, raised, ret>>
    /\ UNCHANGED RunVars

\* The clear as a restore of what the SRE register held before the run.
SreOff_restores_prior ==
    /\ pc = "sre_off"
    /\ \E eff \in {read_write(Common_sre.query, Common_sre.write, Common_sre.validator,
                              PyInt(run.presre), FALSE, "")} :
           /\ RunBus(eff.bus)
           /\ diag' = diag \o eff.diag
    /\ pc' = "read_event"
    /\ UNCHANGED <<run, log_data, raised, ret>>
    /\ UNCHANGED RunVars

\* line 382: self.com.sre(0)
SreOff ==
    /\ pc = "sre_off"
    /\ \E eff \in {read_write(Common_sre.query, Common_sre.write, Common_sre.validator,
                              PyInt(0), FALSE, "")} :
           /\ RunBus(eff.bus)
           /\ diag' = diag \o eff.diag
    /\ pc' = "read_event"
    /\ UNCHANGED <<run, log_data, raised, ret>>
    /\ UNCHANGED RunVars

\* The event register read a second time, the second answer kept.
ReadEvent_twice ==
    /\ pc = "read_event"
    /\ \E answer \in DeviceAnswers(DeviceAfter(dev, BusQuery(":STAT:MEAS:EVEN?")), ":STAT:MEAS:EVEN?") :
       \E eff \in {read(":STAT:MEAS:EVEN?", answer)} :
           /\ RunBus(eff.bus \o eff.bus)
           /\ run' = [run EXCEPT !.event_reg = ParseInt(eff.ret.s).n]
           /\ pc' = "classify"
           /\ raised' = ""
    /\ UNCHANGED <<log_data, diag, ret>>
    /\ UNCHANGED RunVars

\* line 385: event_reg = int(self.status.get_meas_event_reg())
ReadEvent ==
    /\ pc = "read_event"
    /\ \E answer \in DeviceAnswers(dev, ":STAT:MEAS:EVEN?") :
       \E eff \in {read(":STAT:MEAS:EVEN?", answer)} :
           /\ RunBus(eff.bus)
           /\ IF ParseInt(eff.ret.s).ok
              THEN /\ run' = [run EXCEPT !.event_reg = ParseInt(eff.ret.s).n]
                   /\ pc' = "classify"
                   /\ raised' = ""
              ELSE /\ run' = [run EXCEPT !.failed = "parse"]
                   /\ pc' = "idle"
                   /\ raised' = "ValueError"
    /\ UNCHANGED <<log_data, diag, ret>>
    /\ UNCHANGED RunVars

\* np.array(data.split(';'), dtype='f'): [ok, series]; ok is FALSE where a
\* piece is no number and numpy raises ValueError.
ParseSeries(data) ==
    LET pieces == Split(data)
    IN  IF \A i \in 1..Len(pieces) : ParseFloat(pieces[i]).ok
        THEN [ok |-> TRUE, series |-> [i \in 1..Len(pieces) |-> ParseFloat(pieces[i]).n]]
        ELSE [ok |-> FALSE, series |-> <<>>]

\* The number of entries of np.arange(0, stop, step) for stop = step * length
\* computed in binary64 doubles: ceil(stop / step).  The pairs listed are the
\* <<interval, length>> of the model's floats whose product, rounded to a
\* double and divided by the interval again, lies above length: 0.1 * 3 is
\* 0.30000000000000004, and 0.01 * 7 is 0.07 with 0.07 / 0.01 =
\* 7.000000000000001.
ArangeLen(interval, length) ==
    IF <<interval, length>> \in
           {<<FloatUnit \div 10, 3>>, <<FloatUnit \div 10, 6>>, <<FloatUnit \div 10, 12>>,
            <<FloatUnit \div 100, 7>>}
    THEN length + 1
    ELSE length

\* np.arange(0, interval * length, interval) of lines 392-396: [ok, axis],
\* the entries on the grid of the model's floats.
TimeAxis(interval_text, length_text) ==
    LET interval == ParseFloat(interval_text)
        length == ParseInt(length_text)
    IN  IF interval.ok /\ length.ok /\ interval.n # 0
        THEN [ok |-> TRUE,
              axis |-> [k \in 1..(IF length.n > 0 /\ interval.n > 0
                                  THEN ArangeLen(interval.n, length.n) ELSE 0) |->
                           (k - 1) * interval.n]]
        ELSE [ok |-> FALSE, axis |-> <<>>]

\* The warning as a further branch after the data branch.
OverflowWarning_unless_data(ch, event_reg) ==
    IF BitAnd(event_reg, meas_overflow(ch)) # 0 /\ BitAnd(event_reg, reading_avail(ch)) = 0
    THEN <<[kind |-> "overflow", channel |-> ch]>>
    ELSE <<>>

OverflowWarning(ch, event_reg) ==
    IF BitAnd(event_reg, meas_overflow(ch)) # 0
    THEN <<[kind |-> "overflow", channel |-> ch]>>
    ELSE <<>>

\* lines 386-396 and 401-402: the reading is available, fetch and store it
FetchData ==
    /\ pc = "classify"
    /\ BitAnd(run.event_reg, reading_avail(run.channel)) # 0
    /\ \E data \in DeviceAnswers(dev, ":FETC:" \o run.channel \o ":ARR?") :
       \E parsed \in {ParseSeries(data)} :
       \E seconds \in {TimeAxis(values["log"]["sample_interval"], values["log"]["sample_length"])} :
           /\ RunBus(<<BusQuery(":FETC:" \o run.channel \o ":ARR?")>>)
           /\ IF parsed.ok /\ seconds.ok
              THEN /\ log_data' =
                          DictPut(DictPut(EmptyDict,
                                          IF values["log"]["sample_channel"] \in {"CURR", "CURRENT"}
                                          THEN "current" ELSE "voltage",
                                          parsed.series),
                                  "seconds", seconds.axis)
                   /\ run' = [run EXCEPT !.outcome = "DataReady", !.fetched = data]
                   /\ diag' = diag \o OverflowWarning(run.channel, run.event_reg)
                   /\ pc' = "restore"
                   /\ raised' = ""
              ELSE /\ log_data' = IF parsed.ok
                                  THEN DictPut(EmptyDict,
                                               IF values["log"]["sample_channel"] \in {"CURR", "CURRENT"}
                                               THEN "current" ELSE "voltage",
                                               parsed.series)
                                  ELSE log_data
                   /\ run' = [run EXCEPT !.failed = "parse", !.fetched = data]
                   /\ diag' = diag
                   /\ pc' = "idle"
                   /\ raised' = "ValueError"
    /\ UNCHANGED ret
    /\ UNCHANGED RunVars

\* lines 397-398 and 401-402
ReportTimeout ==
    /\ pc = "classify"
    /\ BitAnd(run.event_reg, reading_avail(run.channel)) = 0
    /\ BitAnd(run.event_reg, trigger_timeout(run.channel)) # 0
    /\ diag' = diag \o <<[kind |-> "timeout", channel |-> run.channel]>>
                    \o OverflowWarning(run.channel, run.event_reg)
    /\ run' = [run EXCEPT !.outcome = "TimedOut"]
    /\ pc' = "restore"
    /\ UNCHANGED <<dev, bus, responses, log_data, raised, ret>>
    /\ UNCHANGED RunVars

\* The unknown branch never getting to its end.
ReportUnknown_hangs ==
    /\ pc = "classify"
    /\ BitAnd(run.event_reg, reading_avail(run.channel)) = 0
    /\ BitAnd(run.event_reg, trigger_timeout(run.channel)) = 0
    /\ UNCHANGED vars

\* lines 399-402
ReportUnknown ==
    /\ pc = "classify"
    /\ BitAnd(run.event_reg, reading_avail(run.channel)) = 0
    /\ BitAnd(run.event_reg, trigger_timeout(run.channel)) = 0
    /\ diag' = diag \o <<[kind |-> "unknown", event |-> IntStr(run.event_reg)]>>
                    \o OverflowWarning(run.channel, run.event_reg)
    /\ run' = [run EXCEPT !.outcome = "Unknown"]
    /\ pc' = "restore"
    /\ UNCHANGED <<dev, bus, responses, log_data, raised, ret>>
    /\ UNCHANGED RunVars

\* The restore as a cleanup of the data branch only.
RestoreEnable_only_on_data ==
    /\ pc = "restore"
    /\ \E eff \in {read_write(Status_meas_enable_reg.query, Status_meas_enable_reg.write,
                              Status_meas_enable_reg.validator, PyInt(run.enable_reg),
                              FALSE, "")} :
           /\ bus' = IF run.outcome = "DataReady" THEN bus \o eff.bus ELSE bus
           /\ dev' = IF run.outcome = "DataReady" THEN DeviceAfterAll(dev, eff.bus) ELSE dev
           /\ diag' = diag \o eff.diag
    /\ pc' = "idle"
    /\ UNCHANGED <<responses, run, log_data, raised, ret>>
    /\ UNCHANGED RunVars

\* The run returning without writing the saved value back.
RestoreEnable_skipped ==
    /\ pc = "restore"
    /\ pc' = "idle"
    /\ UNCHANGED <<dev, bus, responses, diag, run, log_data, raised, ret>>
    /\ UNCHANGED RunVars

\* line 404: self.status.meas_enable_reg(enable_reg), and the return
RestoreEnable ==
    /\ pc = "restore"
    /\ \E eff \in {read_write(Status_meas_enable_reg.query, Status_meas_enable_reg.write,
                              Status_meas_enable_reg.validator, PyInt(run.enable_reg),
                              FALSE, "")} :
           /\ RunBus(eff.bus)
           /\ diag' = diag \o eff.diag
    /\ pc' = "idle"
    /\ UNCHANGED <<run, log_data, raised, ret>>
    /\ UNCHANGED RunVars

\* The positions whose step is a bus operation.
BusSteps ==
    {"clear_event", "save_enable", "program", "sre_on", "barrier", "arm", "sre_off",
     "read_event", "restore"}

\* The transport fails in a bus operation of the run (pyvisa raises VisaIOError).
BusError ==
    /\ pc \in BusSteps
    /\ run' = [run EXCEPT !.failed = "bus"]
    /\ pc' = "idle"
    /\ raised' = "VisaIOError"
    /\ UNCHANGED <<dev, bus, responses, log_data, diag, ret>>
    /\ UNCHANGED RunVars

\* The state after Device.__init__ has built a Channel (and its Log) on
\* channel A or B; the registers are as an earlier user left them.
InitLog ==
    /\ chan \in {"A", "B"}
    /\ dev \in [enab : EnableValues, sre : {0, 16}, event : {0, 32, 320}]
    /\ built = {"channel", "measure", "log", "trigger"}
    /\ \E ld \in QueriedDicts(dev, LogParams(chan)) :
           values = [c \in Components |->
                        CASE c = "channel" -> CHOOSE d \in QueriedDicts(dev, ChannelParams(chan)) : TRUE
                          [] c = "measure" -> CHOOSE d \in QueriedDicts(dev, MeasureParams(chan)) : TRUE
                          [] c = "log" -> ld
                          [] c = "trigger" -> CHOOSE d \in QueriedDicts(dev, TriggerParams(chan)) : TRUE
                          [] OTHER -> EmptyDict]
    /\ responses = UNION {DictTexts(values[c]) : c \in Components}
    /\ call = NoCall
    /\ bus = <<>>
    /\ ret = PyNone
    /\ diag = <<>>
    /\ raised = ""
    /\ ncalls = 0
    /\ pc = "idle"
    /\ run = NoRun
    /\ log_data = EmptyDict
    /\ vin = [name |-> "", value |-> PyNone]
    /\ vout = Accepted("")

InitSample == InitLog /\ parked = NoParked

NextSample ==
    \/ StartSample \/ ClearEvent \/ SaveEnable \/ ProgramEnable \/ SreOn \/ Barrier \/ Arm
    \/ SrqArrives \/ SrqTimeoutReturns \/ SrqTimeoutRaises
    \/ SreOff \/ ReadEvent \/ FetchData \/ ReportTimeout \/ ReportUnknown \/ RestoreEnable
    \/ BusError

SpecSample == InitSample /\ [][NextSample]_vars

(***************************************************************************)
(* Runs in which every bus operation returns and the wait returns within   *)
(* its 10000 ms, by the request or by the timeout.  The caller is free to  *)
(* start a run or not; a run that has started is executed statement by     *)
(* statement (weak fairness of its steps).                                 *)
(***************************************************************************)
RunStep ==
    \/ ClearEvent \/ SaveEnable \/ ProgramEnable \/ SreOn \/ Barrier \/ Arm
    \/ SrqArrives \/ SrqTimeoutReturns
    \/ SreOff \/ ReadEvent \/ FetchData \/ ReportTimeout \/ ReportUnknown \/ RestoreEnable

NextReturning == StartSample \/ RunStep

\* The Log as built, the registers as an earlier user and an earlier
\* acquisition left them: an enable mask, a request enable bit, a stale event.
InitReturning ==
    /\ InitSample
    /\ dev = [enab |-> 21, sre |-> 16, event |-> 32]

SpecSampleReturning == InitReturning /\ [][NextReturning]_vars /\ WF_vars(RunStep)

(***************************************************************************)
(* Two Logs on one connection: Device builds a Channel on A and one on B   *)
(* over the same bus (lines 19-20), each with its own Log.  Each Log makes *)
(* one run; the two callers are two threads, and between any two steps of  *)
(* a run the other thread may get to step.  The variables of a run (chan,  *)
(* pc, run, log_data, diag, raised, ret, bus) are those of the Log that is *)
(* stepping, parked.ctx holds those of the other; the instrument is one.   *)
(* Of its dict a run reads the sample channel, interval and length only,   *)
(* which have no part in what it does to the registers, and no step of a   *)
(* run changes a dict: values stands for the dicts of both Logs.           *)
(***************************************************************************)
\* The other thread gets to step.
Switch ==
    /\ parked.ctx.chan # ""
    /\ chan' = parked.ctx.chan
    /\ pc' = parked.ctx.pc
    /\ run' = parked.ctx.run
    /\ log_data' = parked.ctx.log_data
    /\ diag' = parked.ctx.diag
    /\ raised' = parked.ctx.raised
    /\ ret' = parked.ctx.ret
    /\ bus' = parked.ctx.bus
    /\ parked' = [parked EXCEPT
                      !.ctx = [chan |-> chan, pc |-> pc, run |-> run, log_data |-> log_data,
                               diag |-> diag, raised |-> raised, ret |-> ret, bus |-> bus],
                      !.overlapped = @ \/ pc # "idle"]
    /\ UNCHANGED <<dev, built, values, responses, call, ncalls, vin, vout>>

\* Each Log makes its one run.
StartOnce ==
    /\ run = NoRun
    /\ StartSample

NextInterleaved == StartOnce \/ RunStep \/ Switch

\* The Log of channel A is the one stepping at first; which Log makes the
\* first run is the scheduler's choice.
InitInterleaved ==
    /\ InitLog
    /\ chan = "A"
    /\ dev = [enab |-> 21, sre |-> 0, event |-> 0]
    /\ values["log"]["sample_channel"] = "CURR"
    /\ parked = [ctx |-> IdleContext("B"),
                 original |-> dev.enab, overlapped |-> FALSE]

SpecInterleaved == InitInterleaved /\ [][NextInterleaved]_vars

(***************************************************************************)
(* A Log whose sample channel is read and set (Log.sample_channel, lines   *)
(* 323-328) before its first run.                                          *)
(***************************************************************************)
SampleChannelCall ==
    /\ ncalls < MaxCalls
    /\ pc = "idle"
    /\ run = NoRun
    /\ \E value \in {PyNone} \cup SetInputs("sample_channel") :
           ReadWriteCall(Log_sample_channel(chan), value)

NextConfigured == SampleChannelCall \/ NextSample

SpecConfigured == InitSample /\ [][NextConfigured]_vars

(***************************************************************************)
(* Command.write (lines 1197-1205) on its own.  Its second parameter is    *)
(* named validator and is not called: it is tested as it is given, so a    *)
(* caller that validates hands over what the validator returned.           *)
(***************************************************************************)
PyError(kind) == [t |-> "error", n |-> 0, s |-> kind]
PyFunction(name) == [t |-> "function", n |-> 0, s |-> name]

\* Command.write sending whatever it is given.
write_ignores_validator(command, validator) ==
    Effect(<<BusWrite(command)>>, PyNone, <<>>, FALSE, "")

write(command, validator) ==
    IF validator = PyNone
    THEN Effect(<<BusWrite(command)>>, PyNone, <<>>, FALSE, "")
    ELSE LET val == validator
         IN  IF val.t = "error"
             THEN Effect(<<>>, PyNone, <<[kind |-> "WARNING", error |-> val]>>, FALSE, "")
             ELSE Effect(<<BusWrite(command)>>, PyNone, <<>>, FALSE, "")

\* The write tokens of the accessors built on Command.write.
WriteTokens == {"*CLS", "*RST", "*TRG", "*WAI", "*AARM", "*BARM", ":STAT:PRES", ":SYST:CLE"}

\* What a validator's result is as a Python value: the token or the error.
ResultValue(val) == IF val.ok THEN PyStr(val.tok) ELSE PyError(val.err)

\* What a caller may hand over as validator: nothing, a validator's bound
\* method, or what a validator returned for some value.
WriteValidators ==
    {PyNone, PyFunction("preset"), PyFunction("register_8")}
    \cup {ResultValue(Validator("preset", v)) : v \in {PyInt(3), PyInt(12), PyStr("3")}}
    \cup {ResultValue(Validator("voltage", v)) : v \in {PyStr("max"), PyFloat(17 * FloatUnit), PyList}}

WriteCall ==
    /\ ncalls < MaxCalls
    /\ pc = "idle"
    /\ \E command \in WriteTokens : \E validator \in WriteValidators :
       \E eff \in {write(command, validator)} :
           /\ bus' = eff.bus
           /\ dev' = DeviceAfterAll(dev, eff.bus)
           /\ ret' = eff.ret
           /\ diag' = eff.diag
           /\ call' = [op |-> "write", acc |-> Accessor("", "", command, "", "", FALSE),
                       value |-> validator, answer |-> ""]
           /\ raised' = ""
           /\ ncalls' = ncalls + 1
           /\ UNCHANGED <<built, chan, values, responses, pc, run, log_data, vin, vout, parked>>

SpecWrite == Init /\ [][WriteCall]_vars

(***************************************************************************)
(* class Measure: the statistic measurements (lines 448-488) through       *)
(* __get_stat (lines 425-429), which switches the sense function first     *)
(* when the cached one does not name the source to be measured.            *)
(***************************************************************************)
\* The (meas_source, stat_type) pairs of current_low .. voltage_dvm.
StatMethods ==
    {<<"CURR", "LOW">>, <<"CURR", "HIGH">>, <<"CURR", "MIN">>, <<"CURR", "PEAK">>,
     <<"CURR", "AVER">>, <<"CURR", "RMS">>,
     <<"VOLT", "LOW">>, <<"VOLT", "HIGH">>, <<"VOLT", "MIN">>, <<"VOLT", "PEAK">>,
     <<"VOLT", "RMS">>, <<"VOLT", "DVM">>}

\* __get_stat setting the sense function before every measurement.
get_stat_always_sets(ch, cached, meas_source, stat_type, sense_answer, answer) ==
    LET acc == Measure_sense(ch)
        sense == read_write(acc.query, acc.write, acc.validator, PyStr(meas_source),
                            acc.has_dict, sense_answer)
        stat == read(":MEAS:" \o ch \o ":" \o stat_type \o "?", answer)
    IN  Effect(sense.bus \o stat.bus, stat.ret, sense.diag \o stat.diag,
               sense.store, sense.stored)

\* cached is self.values['sense']; sense_answer is what the instrument
\* answers to the re-query of self.sense(meas_source), answer what it answers
\* to the measurement.
get_stat(ch, cached, meas_source, stat_type, sense_answer, answer) ==
    LET acc == Measure_sense(ch)
        sense == IF ~StrContains(cached, meas_source)
                 THEN read_write(acc.query, acc.write, acc.validator, PyStr(meas_source),
                                 acc.has_dict, sense_answer)
                 ELSE Effect(<<>>, PyNone, <<>>, FALSE, "")
        stat == read(":MEAS:" \o ch \o ":" \o stat_type \o "?", answer)
    IN  Effect(sense.bus \o stat.bus, stat.ret, sense.diag \o stat.diag,
               sense.store, sense.stored)

\* One of current_low() .. voltage_dvm() on the Measure of the Channel.
GetStat ==
    /\ ncalls < MaxCalls
    /\ pc = "idle"
    /\ "measure" \in built
    /\ \E m \in StatMethods :
       \E sense_answer \in DeviceAnswers(dev, Measure_sense(chan).query) :
       \E answer \in DeviceAnswers(dev, ":MEAS:" \o chan \o ":" \o m[2] \o "?") :
       \E eff \in {get_stat(chan, values["measure"]["sense"], m[1], m[2], sense_answer, answer)} :
           /\ bus' = eff.bus
           /\ dev' = DeviceAfterAll(dev, eff.bus)
           /\ ret' = eff.ret
           /\ diag' = eff.diag
           /\ values' = IF eff.store
                        THEN [values EXCEPT !["measure"] = DictPut(@, "sense", eff.stored)]
                        ELSE values
           /\ responses' = responses \cup {answer} \cup (IF eff.store THEN {eff.stored} ELSE {})
           /\ call' = [op |-> "stat",
                       acc |-> Accessor("measure", ":MEAS:" \o chan \o ":" \o m[2] \o "?",
                                        "", "", "", FALSE),
                       value |-> PyStr(m[1]), answer |-> answer]
           /\ raised' = ""
           /\ ncalls' = ncalls + 1
           /\ UNCHANGED <<built, chan, pc, run, log_data, vin, vout, parked>>

\* The state after a Channel has been built on A or B, its Measure holding
\* whichever sense function the instrument answered.
InitMeasure ==
    /\ chan \in {"A", "B"}
    /\ dev \in [enab : {0}, sre : {0}, event : {0}]
    /\ built = {"channel", "measure", "log", "trigger"}
    /\ \E md \in QueriedDicts(dev, MeasureParams(chan)) :
           values = [c \in Components |->
                        CASE c = "channel" -> CHOOSE d \in QueriedDicts(dev, ChannelParams(chan)) : TRUE
                          [] c = "measure" -> md
                          [] c = "log" -> CHOOSE d \in QueriedDicts(dev, LogParams(chan)) : TRUE
                          [] c = "trigger" -> CHOOSE d \in QueriedDicts(dev, TriggerParams(chan)) : TRUE
                          [] OTHER -> EmptyDict]
    /\ responses = UNION {DictTexts(values[c]) : c \in Components}
    /\ call = NoCall
    /\ bus = <<>>
    /\ ret = PyNone
    /\ diag = <<>>
    /\ raised = ""
    /\ ncalls = 0
    /\ pc = "idle"
    /\ run = NoRun
    /\ log_data = EmptyDict
    /\ vin = [name |-> "", value |-> PyNone]
    /\ vout = Accepted("")
    /\ parked = NoParked

SpecMeasure == InitMeasure /\ [][GetStat]_vars

(***************************************************************************)
(* The claims.                                                             *)
(***************************************************************************)
LastBus == bus[Len(bus)]

IsEnableWrite(b) == b.op = "write" /\ CmdToken(b.cmd) = ":STAT:MEAS:ENAB"

\* The run has returned to its caller with one of the three outcomes.
RunReturned ==
    /\ pc = "idle"
    /\ raised = ""
    /\ run.outcome \in {"DataReady", "TimedOut", "Unknown"}

\* C1: a start_sample run that ends with one of its three outcomes (DataReady,
\* TimedOut, Unknown), whatever the Enable register held before it and whatever
\* the event value it read, sends as its last bus command the
\* ':STAT:MEAS:ENAB' write that carries the value its first ':STAT:MEAS:ENAB?'
\* query returned, and leaves the Enable register as it was before the run.
C1_EnableRestored ==
    RunReturned =>
        /\ IsEnableWrite(LastBus)
        /\ ParseInt(run.enable_answer).ok
        /\ ParseInt(CmdArg(LastBus.cmd)) = ParseInt(run.enable_answer)
        /\ dev.enab = run.prerun

C1_Witness ==
    /\ RunReturned
    /\ run.outcome = "TimedOut"
    /\ run.prerun = 65535
    /\ dev.enab = 65535
    /\ LastBus = BusWrite(":STAT:MEAS:ENAB 65535")

\* C2: when the wait of start_sample ends by timeout, reported by the
\* transport's return or by its raising, then once control has left
\* start_sample the run has sent '*SRE 0' exactly once and the Enable restore
\* write exactly once.  (Stated as claimed; the run has no handler around
\* the wait.)
C2_CleanupOnTimeout ==
    (/\ pc = "idle"
     /\ run.waited \in {"timeout", "timeout_raised"}
     /\ run.failed \in {"", "wait"}) =>
        /\ Cardinality({i \in 1..Len(bus) : bus[i] = BusWrite("*SRE 0")}) = 1
        /\ Cardinality({i \in 1..Len(bus) :
                            /\ IsEnableWrite(bus[i])
                            /\ \E j \in 1..(i - 1) : bus[j] = BusWrite(pulse_start(run.channel))}) = 1

\* C3: on every exit of start_sample taken after the run has reprogrammed
\* the Enable register, an exit by a raised error included, the saved value
\* has been written back.  (Stated as claimed.)
C3_RestoreOnEveryExit ==
    (/\ pc = "idle"
     /\ \E i \in 1..Len(bus) : IsEnableWrite(bus[i])) =>
        \E i, j \in 1..Len(bus) :
            /\ i < j
            /\ IsEnableWrite(bus[i])
            /\ bus[j] = BusWrite(":STAT:MEAS:ENAB " \o IntStr(run.enable_reg))

\* The call observed is a set whose value the validator accepts.
SetAccepted ==
    /\ call.op = "set"
    /\ (call.acc.validator = "" \/ Validator(call.acc.validator, call.value).ok)

SetRejected ==
    /\ call.op = "set"
    /\ call.acc.validator # ""
    /\ ~Validator(call.acc.validator, call.value).ok

\* C4, as claimed: every read_write with an accepted value issues one write
\* followed by one query of the query token, stores the response and returns
\* nothing, the accessors that pass no dict included.
C4_WriteThenQueryAlways ==
    SetAccepted =>
        /\ Len(bus) = 2
        /\ bus[1].op = "write"
        /\ bus[2] = BusQuery(call.acc.query)
        /\ ret = PyNone

\* C4, amended: every read_write with an accepted value issues exactly one
\* write and returns nothing; with a dict the write is followed by exactly
\* one query of the query token and the dict holds that query's response
\* under the key; with no dict nothing follows the write.
C4_WriteThenQueryWithDict ==
    SetAccepted =>
        /\ ret = PyNone
        /\ Len(bus) >= 1
        /\ bus[1].op = "write"
        /\ CmdToken(bus[1].cmd) = call.acc.write
        /\ IF call.acc.has_dict
           THEN /\ Len(bus) = 2
                /\ bus[2] = BusQuery(call.acc.query)
                /\ call.acc.key \in DOMAIN values[call.acc.comp]
                /\ values[call.acc.comp][call.acc.key] = call.answer
           ELSE Len(bus) = 1

C4_Witness ==
    /\ SetAccepted
    /\ call.acc.has_dict
    /\ Len(bus) = 2
    /\ values[call.acc.comp][call.acc.key] = call.answer
    /\ call.answer # PyStrOf(call.value)
    /\ call.answer # Validator(call.acc.validator, call.value).tok

\* C5: a read_write whose validator rejects the value (TypeError or
\* ValueError) does nothing on the bus, changes no dict and no register,
\* prints one diagnostic and returns None.
C5_RejectedSetIsInert ==
    [][(/\ ncalls' = ncalls + 1
        /\ call'.op = "set"
        /\ call'.acc.validator # ""
        /\ ~Validator(call'.acc.validator, call'.value).ok) =>
           /\ bus' = <<>>
           /\ values' = values
           /\ dev' = dev
           /\ Len(diag') = 1
           /\ diag'[1].error.err \in {"TypeError", "ValueError"}
           /\ ret' = PyNone]_vars

C5_Witness ==
    /\ SetRejected
    /\ call.acc.has_dict
    /\ Validator(call.acc.validator, call.value).err = "ValueError"
    /\ bus = <<>>
    /\ Len(diag) = 1

\* C6: read_write with no value, and read, issue exactly one query and no
\* write, return that query's raw response, and leave every dict as it was.
C6_GetIsPureRead ==
    [][(ncalls' = ncalls + 1 /\ call'.op \in {"get", "read"}) =>
           /\ bus' = <<BusQuery(call'.acc.query)>>
           /\ ret' = PyStr(call'.answer)
           /\ values' = values]_vars

C6_Witness ==
    /\ call.op = "get"
    /\ call.acc.has_dict
    /\ call.acc.key \in DOMAIN values[call.acc.comp]
    /\ ret = PyStr(call.answer)
    /\ values[call.acc.comp][call.acc.key] # call.answer

\* C7: on a successful validated set the command sent is the write token, a
\* space and the validator's canonical token: str of the number as given, or
\* the alias uppercased.  (Stated as claimed; the code sends str(value).)
C7_SendsCanonicalToken ==
    (SetAccepted /\ call.acc.validator # "") =>
        /\ Len(bus) >= 1
        /\ bus[1] = BusWrite(call.acc.write \o " " \o Validator(call.acc.validator, call.value).tok)

\* C8, as claimed: every text held in a component's values dict is a
\* response a query returned.
C8_CacheHoldsResponsesOnly ==
    \A c \in Components : \A k \in DOMAIN values[c] : values[c][k] \in responses

\* C8, amended: every text held in a component's values dict is a response a
\* query returned, but for the Relay's entry 'relay', which holds the relay
\* number as its validator returned it.
C8_CacheHoldsResponsesButRelayNumber ==
    \A c \in Components : \A k \in DOMAIN values[c] :
        IF c = "relay" /\ k = "relay"
        THEN values[c][k] \in {IntStr(i) : i \in RelayNumberValues[1]..RelayNumberValues[2]}
        ELSE values[c][k] \in responses

C8_Witness ==
    /\ "relay" \in built
    /\ values["relay"]["relay"] \notin responses
    /\ SetAccepted
    /\ call.acc.comp = "relay"
    /\ values["relay"]["state"] = call.answer

\* C9: a validator with an alias set accepts a text exactly when the text,
\* case ignored, equals an entry of the set; an accepted text yields itself
\* uppercased, every other text (the empty one, a piece of an alias) a
\* ValueError.  (Stated as claimed; the code tests `in` on str(tuple).)
C9_AliasExactMatch ==
    (vout # Pending /\ vin.name \in AliasValidators /\ vin.value.t = "str") =>
        IF \E i \in 1..Len(AliasSet(vin.name)) :
               StrLower(AliasSet(vin.name)[i]) = StrLower(vin.value.s)
        THEN vout = Accepted(StrUpper(vin.value.s))
        ELSE ~vout.ok /\ vout.err = "ValueError"

\* C10: a numeric-range-or-alias validator with range (min, max) and
\* resolution r accepts a number v exactly when the multiple of 10^-r nearest
\* to v lies in [min, max]; it returns str of v as given, not of the rounded
\* value; a number it rejects yields a ValueError.
C10_NumericAcceptance ==
    (vout # Pending /\ vin.name \in FloatRangeValidators /\ vin.value.t \in {"float", "int"}) =>
        LET u == IF vin.value.t = "int" THEN vin.value.n * FloatUnit ELSE vin.value.n
            m == Pow10(FloatDigits - RoundTo(vin.name))
            rng == RangedSet(vin.name)[1]
            nearest_in_range ==
                \E k \in ((u \div m) - 1)..((u \div m) + 1) :
                    /\ 2 * (IF u >= k * m THEN u - k * m ELSE k * m - u) < m
                    /\ rng[1] <= k * m
                    /\ k * m <= rng[2]
        IN  /\ vout.ok <=> nearest_in_range
            /\ vout.ok => vout.tok = PyStrOf(vin.value)
            /\ ~vout.ok => vout.err = "ValueError"

C10_Witness ==
    /\ vin = [name |-> "voltage", value |-> PyFloat(15 * FloatUnit + 40)]
    /\ vout = Accepted("15.0004")

\* The types a validator's family takes.
AcceptedShapes(name) ==
    IF name \in FloatRangeValidators THEN {"int", "float", "str"}
    ELSE IF name \in {"average_count", "sample_length", "on_off"} THEN {"int", "str"}
    ELSE IF name \in AliasOnlyValidators THEN {"str"}
    ELSE {"int"}

\* The range of a validator that has one.
RangeOf(name) ==
    CASE name = "register_8" -> Register8Values
      [] name = "register_16" -> Register16Values
      [] name = "preset" -> PresetValues
      [] name = "relay_number" -> RelayNumberValues
      [] OTHER -> RangedSet(name)[1]

\* The number lies in the validator's range (for on_off: is one of 0, 1).
InRange(name, value) ==
    /\ value.t \in {"int", "float"} \cap AcceptedShapes(name)
    /\ name \notin AliasOnlyValidators
    /\ IF name \in FloatRangeValidators
       THEN float_range(Round(ToFloat(value), RoundTo(name)), RangeOf(name))
       ELSE IF name = "on_off" THEN value.n \in {0, 1}
       ELSE int_range(value.n, RangeOf(name))

\* The text, case ignored, is an entry of the validator's alias set.
InAliasSet(name, value) ==
    /\ value.t = "str"
    /\ name \in AliasValidators
    /\ \E i \in 1..Len(AliasSet(name)) : StrLower(AliasSet(name)[i]) = StrLower(value.s)

\* The half of C11 on TypeError: the result is a TypeError exactly when the
\* input's type is none of the shapes the validator's family takes.
C11_TypeErrorByShape ==
    vout # Pending =>
        ((~vout.ok /\ vout.err = "TypeError") <=> vin.value.t \notin AcceptedShapes(vin.name))

\* C11: for every validator and input the result is a TypeError exactly when
\* the input's type is none of the shapes the family takes, a ValueError
\* exactly when the type is taken and the value lies outside both the range
\* and the alias set; validating does nothing on the bus and changes no
\* dict.  (Stated as claimed; the alias test of the code is a substring test.)
C11_ErrorKinds ==
    vout # Pending =>
        /\ (~vout.ok /\ vout.err = "TypeError") <=> vin.value.t \notin AcceptedShapes(vin.name)
        /\ (~vout.ok /\ vout.err = "ValueError") <=>
               (/\ vin.value.t \in AcceptedShapes(vin.name)
                /\ ~InRange(vin.name, vin.value)
                /\ ~InAliasSet(vin.name, vin.value))
        /\ bus = <<>>
        /\ values = [c \in Components |-> EmptyDict]

\* What a full description of a validator's domain names.
DomainCites(name) ==
    IF name \in FloatRangeValidators \cup {"average_count", "sample_length"} THEN {"range", "set"}
    ELSE IF name = "on_off" THEN {"numbers", "set"}
    ELSE IF name \in AliasOnlyValidators THEN {"set"}
    ELSE {"range"}

\* C12: every validation error, TypeError and ValueError alike, carries the
\* rejected value and the full description of the accepted domain, and the
\* diagnostic read_write prints for a rejected set carries the same.
\* (Stated as claimed; the messages format the domain or the type only.)
C12_ErrorsCarryValueAndDomain ==
    SetRejected =>
        /\ "value" \in Validator(call.acc.validator, call.value).cites
        /\ DomainCites(call.acc.validator) \subseteq Validator(call.acc.validator, call.value).cites
        /\ Len(diag) = 1
        /\ diag[1].error = Validator(call.acc.validator, call.value)

\* The call observed validated an input and the validator rejected it.
ValidationFailed ==
    \/ SetRejected
    \/ call.op = "Channel" /\ ~Validator("channel", call.value).ok
    \/ call.op = "Relay" /\ ~Validator("relay_number", call.value).ok

\* C13: a failing validation is never raised to the caller: in a set and in
\* the construction of a Channel or a Relay alike, control returns normally.
\* (Stated as claimed; the two constructors raise the error.)
C13_ValidationNeverRaises ==
    ValidationFailed => raised = ""

\* C14: Command.write given a validator's rejection (a TypeError or a
\* ValueError) prints one diagnostic and sends nothing; given anything else
\* (no validator, a validator's method, an accepted token) it sends the write
\* token as it is, once.
C14_WriteSendsUnlessRejected ==
    call.op = "write" =>
        IF call.value.t = "error"
        THEN /\ bus = <<>>
             /\ Len(diag) = 1
             /\ diag[1].error.s \in {"TypeError", "ValueError"}
        ELSE /\ bus = <<BusWrite(call.acc.write)>>
             /\ diag = <<>>

C14_Witness ==
    /\ call.op = "write"
    /\ call.value = PyError("ValueError")
    /\ call.acc.write = "*RST"
    /\ bus = <<>>
    /\ Len(diag) = 1

\* The run has classified the event value it read.
Classified == pc = "restore" \/ RunReturned

\* The three event bits of the run's channel, as the manual numbers them.
ReadingBit == IF run.channel = "A" THEN 32 ELSE 256
TimeoutBit == IF run.channel = "A" THEN 16 ELSE 128
OverflowBit == IF run.channel = "A" THEN 8 ELSE 64

HasBit(e, bit) == (e \div bit) % 2 = 1

FetchQuery == BusQuery(":FETC:" \o run.channel \o ":ARR?")

Diagnosed(kind) == \E i \in 1..Len(diag) : diag[i].kind = kind

\* The entry of log_data a series is stored under.
SeriesKeys == {"current", "voltage"} \cap DOMAIN log_data

\* C15: a run classifies the one event value e it read after the wait, in
\* this priority: reading_avail set: the array is fetched and samples are
\* stored (DataReady); else trigger_timeout set: a timeout is reported,
\* nothing is fetched or stored (TimedOut); else an unknown-outcome
\* diagnostic carrying e is reported (Unknown).  One outcome per run, and
\* the fetch query is issued exactly when reading_avail is set.
C15_OutcomeByPriority ==
    Classified =>
        /\ run.outcome =
               (IF HasBit(run.event_reg, ReadingBit) THEN "DataReady"
                ELSE IF HasBit(run.event_reg, TimeoutBit) THEN "TimedOut"
                ELSE "Unknown")
        /\ (\E i \in 1..Len(bus) : bus[i] = FetchQuery) <=> HasBit(run.event_reg, ReadingBit)
        /\ \A i \in 1..Len(bus) : CmdToken(bus[i].cmd) \in {":FETC:A:ARR?", ":FETC:B:ARR?"} => bus[i] = FetchQuery
        /\ run.outcome = "DataReady" =>
               /\ Cardinality(SeriesKeys) = 1
               /\ ~Diagnosed("timeout")
               /\ ~Diagnosed("unknown")
        /\ run.outcome = "TimedOut" =>
               /\ log_data = EmptyDict
               /\ \E i \in 1..Len(diag) : diag[i] = [kind |-> "timeout", channel |-> run.channel]
               /\ ~Diagnosed("unknown")
        /\ run.outcome = "Unknown" =>
               /\ log_data = EmptyDict
               /\ \E i \in 1..Len(diag) : diag[i] = [kind |-> "unknown", event |-> IntStr(run.event_reg)]
               /\ ~Diagnosed("timeout")

C15_Witness ==
    /\ RunReturned
    /\ run.channel = "A"
    /\ run.event_reg = 48
    /\ run.outcome = "DataReady"
    /\ \E i \in 1..Len(bus) : bus[i] = BusQuery(":FETC:A:ARR?")

\* C16: the overflow warning is reported exactly when the channel's
\* meas_overflow bit is set in the event value read, whatever the outcome,
\* and with it reported the samples of a DataReady run are those fetched.
C16_OverflowIndependent ==
    Classified =>
        /\ Cardinality({i \in 1..Len(diag) : diag[i].kind = "overflow"}) =
               (IF HasBit(run.event_reg, OverflowBit) THEN 1 ELSE 0)
        /\ \A i \in 1..Len(diag) : diag[i].kind = "overflow" => diag[i].channel = run.channel
        /\ run.outcome = "DataReady" =>
               /\ Cardinality(SeriesKeys) = 1
               /\ \A k \in SeriesKeys :
                      /\ ParseSeries(run.fetched).ok
                      /\ log_data[k] = ParseSeries(run.fetched).series
               /\ "seconds" \in DOMAIN log_data

C16_Witness ==
    /\ RunReturned
    /\ run.channel = "B"
    /\ run.event_reg = 320
    /\ run.outcome = "DataReady"
    /\ run.fetched = "1.0;2.0;3.0"
    /\ Diagnosed("overflow")
    /\ \E k \in SeriesKeys : Len(log_data[k]) = 3

\* The places of the arm token in the bus record of the run.
ArmPlaces == {i \in 1..Len(bus) : bus[i].op = "write" /\ bus[i].cmd \in {"*AARM", "*BARM"}}

\* C17: in every run the first bus command after the wait returns is
\* '*SRE 0', before the event register is read and before any fetch; the
\* run sets the request-enable with its '*SRE 1' before the arm token and
\* with no other command, it is set from there to the clear and is clear
\* from the clear on.
C17_ClearFirstAfterWait ==
    /\ \A i \in ArmPlaces : i < Len(bus) => bus[i + 1] = BusWrite("*SRE 0")
    /\ pc \in {"read_event", "classify", "restore"} =>
           \E i \in ArmPlaces : i < Len(bus) /\ bus[i + 1] = BusWrite("*SRE 0")
    /\ \A i \in 1..Len(bus) : CmdToken(bus[i].cmd) = "*SRE" =>
           \/ bus[i] = BusWrite("*SRE 1") /\ \A j \in ArmPlaces : i < j
           \/ bus[i] = BusWrite("*SRE 0") /\ (i - 1) \in ArmPlaces
    /\ pc \in {"barrier", "arm", "wait", "sre_off"} => dev.sre = 1
    /\ (pc \in {"read_event", "classify", "restore"} \/ RunReturned) => dev.sre = 0

C17_Witness ==
    /\ pc = "read_event"
    /\ run.waited = "timeout"
    /\ LastBus = BusWrite("*SRE 0")
    /\ bus[Len(bus) - 1] = BusWrite("*BARM")
    /\ dev.sre = 0

\* The bus commands of a run up to the wait, in order.
Preamble ==
    <<BusWrite(":SYST:CLE"), BusQuery(":STAT:MEAS:EVEN?"), BusQuery(":STAT:MEAS:ENAB?"),
      BusWrite(IF chan = "A" THEN ":STAT:MEAS:ENAB 56" ELSE ":STAT:MEAS:ENAB 448"),
      BusWrite("*SRE 1"), BusWrite("*WAI"),
      BusWrite(IF chan = "A" THEN "*AARM" ELSE "*BARM")>>

\* C18: the bus commands of a run before the wait are, in this order, the
\* save query of the Enable register, the write of the channel's mask, the
\* set of the request-enable, '*WAI' and the arm token of the run's channel;
\* the wait starts only after the arm token.
C18_OrderBeforeWait ==
    /\ \A i \in 1..Len(bus) : i <= Len(Preamble) => bus[i] = Preamble[i]
    /\ pc = "wait" => bus = Preamble
    /\ run.waited # "" => Len(bus) >= Len(Preamble)
    /\ \A i \in ArmPlaces : i = Len(Preamble)

C18_Witness ==
    /\ pc = "wait"
    /\ chan = "B"
    /\ bus[4] = BusWrite(":STAT:MEAS:ENAB 448")
    /\ bus[7] = BusWrite("*BARM")
    /\ dev.enab = 448
    /\ dev.sre = 1

\* The places of the event query in the bus record of the run.
EventReads == {i \in 1..Len(bus) : bus[i] = BusQuery(":STAT:MEAS:EVEN?")}

\* C19, as claimed: a run issues ':STAT:MEAS:EVEN?' no more than once.
C19_EventReadOnce ==
    Cardinality(EventReads) <= 1

\* C19, amended: a run issues ':STAT:MEAS:EVEN?' once before it arms, to
\* drop what was latched, and no more than once after the wait; a run that
\* returns has issued it exactly twice.
C19_EventReadOnceAfterWait ==
    /\ Cardinality({i \in EventReads : \A j \in ArmPlaces : i < j}) <= 1
    /\ Cardinality({i \in EventReads : \E j \in ArmPlaces : j < i}) <= 1
    /\ RunReturned => Cardinality(EventReads) = 2

C19_Witness ==
    /\ RunReturned
    /\ bus[2] = BusQuery(":STAT:MEAS:EVEN?")
    /\ bus[9] = BusQuery(":STAT:MEAS:EVEN?")
    /\ run.event_reg = 56

\* The sample channel the instrument confirmed last for the Log: the answer
\* to the re-query of the latest accepted set, or else to the query of the
\* construction.
ConfirmedSampleChannel ==
    IF "sample_source" \in DOMAIN values["log"]
    THEN values["log"]["sample_source"]
    ELSE values["log"]["sample_channel"]

\* C20: in a DataReady run, after any gets and sets of sample_channel on the
\* Log, the fetched series is stored as current samples exactly when the
\* sample channel the instrument confirmed last is CURR or CURRENT, and as
\* voltage samples otherwise.  (Stated as claimed; a set stores the answer
\* under 'sample_source', the run reads 'sample_channel'.)
C20_SeriesKindFollowsLatestChannel ==
    (Classified /\ run.outcome = "DataReady") =>
        /\ "current" \in DOMAIN log_data <=> ConfirmedSampleChannel \in {"CURR", "CURRENT"}
        /\ "voltage" \in DOMAIN log_data <=> ConfirmedSampleChannel \notin {"CURR", "CURRENT"}

\* The queries of the run for the sample length or the sample interval.
AxisQueries ==
    {i \in 1..Len(bus) :
        /\ bus[i].op = "query"
        /\ \/ StrContains(bus[i].cmd, ":PULS:SAMP:LENG")
           \/ StrContains(bus[i].cmd, ":PULS:SAMP:INT")}

\* C21: in a DataReady run the time axis has exactly sample_length entries,
\* its k-th entry (k from 0) is k * sample_interval, and both parameters are
\* the Log's cached ones: the run queries the instrument for neither.
C21_TimeAxisOfCachedLength ==
    (Classified /\ run.outcome = "DataReady") =>
        /\ "seconds" \in DOMAIN log_data
        /\ Len(log_data["seconds"]) = ParseInt(values["log"]["sample_length"]).n
        /\ \A k \in 1..Len(log_data["seconds"]) :
               log_data["seconds"][k] = (k - 1) * ParseFloat(values["log"]["sample_interval"]).n
        /\ AxisQueries = {}

\* A DataReady run with sample_interval 0.1 and sample_length 3 whose axis has
\* a fourth entry.
C21_AxisOvershoots ==
    /\ RunReturned
    /\ run.outcome = "DataReady"
    /\ values["log"]["sample_interval"] = "0.1"
    /\ values["log"]["sample_length"] = "3"
    /\ Len(log_data["seconds"]) = 4
    /\ AxisQueries = {}

\* The positions of a run from the programming of the Enable register up to
\* its restore.
Programmed ==
    {"sre_on", "barrier", "arm", "wait", "sre_off", "read_event", "classify", "restore"}

\* The three bits of the run's own channel, or-ed (they are distinct bits).
OwnMask == ReadingBit + TimeoutBit + OverflowBit

\* The Enable writes of the run, as places of its bus record.
EnableWrites == {i \in 1..Len(bus) : IsEnableWrite(bus[i])}

\* C22: the value a run writes to the Measurement Enable register is the OR
\* of the three bits of its own channel and nothing else (56 for A, 448 for
\* B); the bits it tests in the event value afterwards are those three; and
\* the register holds that mask from the programming step until the restore.
C22_MaskIsOwnThreeBits ==
    /\ pc \in Programmed =>
           /\ bus[4] = BusWrite(":STAT:MEAS:ENAB " \o IntStr(OwnMask))
           /\ EnableWrites = {4}
           /\ dev.enab = OwnMask
           /\ OwnMask = IF run.channel = "A" THEN 56 ELSE 448
    /\ Classified =>
           /\ run.outcome = "DataReady" <=> HasBit(run.event_reg, ReadingBit)
           /\ run.outcome = "TimedOut" <=>
                  ~HasBit(run.event_reg, ReadingBit) /\ HasBit(run.event_reg, TimeoutBit)
           /\ Diagnosed("overflow") <=> HasBit(run.event_reg, OverflowBit)
           /\ \A bit \in {ReadingBit, TimeoutBit, OverflowBit} : HasBit(OwnMask, bit)

C22_Witness ==
    /\ pc = "restore"
    /\ run.channel = "B"
    /\ run.prerun = 21
    /\ dev.enab = 448
    /\ run.event_reg = 320
    /\ run.outcome = "DataReady"
    /\ Diagnosed("overflow")

\* The three event bits of a channel, as the run sets them.
LayoutOf(ch) == {reading_avail(ch), trigger_timeout(ch), meas_overflow(ch)}

OtherChannel(ch) == IF ch = "A" THEN "B" ELSE "A"

\* C23: the bit layouts of channel A and channel B do not overlap in the
\* shared 16-bit Measurement register: no bit of A's three is a bit of B's
\* three, the two enable masks have bitwise AND 0, both masks lie in
\* 0..65535; so a run whose event value holds bits of the other channel only
\* sees none of its own: it ends Unknown, with no data and no overflow warning.
C23_LayoutsDisjoint ==
    /\ \A a \in LayoutOf("A") : \A b \in LayoutOf("B") : a # b /\ BitAnd(a, b) = 0
    /\ Cardinality(LayoutOf("A")) = 3
    /\ Cardinality(LayoutOf("B")) = 3
    /\ BitAnd(enable_mask("A"), enable_mask("B")) = 0
    /\ enable_mask("A") \in 0..65535
    /\ enable_mask("B") \in 0..65535
    /\ (Classified /\ run.event_reg # 0
          /\ BitAnd(run.event_reg, enable_mask(OtherChannel(run.channel))) = run.event_reg) =>
           /\ run.outcome = "Unknown"
           /\ log_data = EmptyDict
           /\ ~Diagnosed("overflow")
           /\ ~Diagnosed("timeout")

C23_Witness ==
    /\ RunReturned
    /\ run.channel = "A"
    /\ run.event_reg = 448
    /\ run.outcome = "Unknown"
    /\ log_data = EmptyDict
    /\ ~Diagnosed("overflow")

\* The writes and the queries of the SRE register in the bus record of the run.
SreWrites == SelectSeq(bus, LAMBDA b : b.op = "write" /\ CmdToken(b.cmd) = "*SRE")
SreQueries == {i \in 1..Len(bus) : bus[i] = BusQuery("*SRE?")}

\* C28: after every completed run the service-request-enable register is 0,
\* whatever it held before the run: the run writes 1 and then 0 to the whole
\* register and never reads it, so it neither saves nor restores what was
\* there (unlike the Measurement Enable register, which it puts back).
C28_SreLeftZero ==
    /\ SreQueries = {}
    /\ RunReturned =>
           /\ dev.sre = 0
           /\ SreWrites = <<BusWrite("*SRE 1"), BusWrite("*SRE 0")>>
           /\ dev.enab = run.prerun

C28_Witness ==
    /\ RunReturned
    /\ run.presre = 16
    /\ run.prerun = 21
    /\ dev.sre = 0
    /\ dev.enab = 21

\* The positions of a run before it has classified the event value.
BeforeData ==
    {"clear_event", "save_enable", "program", "sre_on", "barrier", "arm", "wait",
     "sre_off", "read_event", "classify"}

\* C25: log_data holds data of the most recent run only.  It is empty from
\* the start of a run until the run has data, it is empty after a run that
\* ended TimedOut or Unknown, and after a DataReady run it holds exactly one
\* value series, the samples this run fetched, and one time axis.
C25_BufferOfLatestRunOnly ==
    /\ pc \in BeforeData => log_data = EmptyDict
    /\ (Classified /\ run.outcome \in {"TimedOut", "Unknown"}) => log_data = EmptyDict
    /\ (Classified /\ run.outcome = "DataReady") =>
           /\ Cardinality(SeriesKeys) = 1
           /\ DOMAIN log_data = SeriesKeys \cup {"seconds"}
           /\ \A k \in SeriesKeys : log_data[k] = ParseSeries(run.fetched).series

C25_Witness ==
    /\ RunReturned
    /\ run.outcome = "DataReady"
    /\ run.fetched = "0.5"
    /\ DOMAIN log_data = {"voltage", "seconds"}
    /\ log_data["voltage"] = <<FloatUnit \div 2>>

\* The width of the register behind a register validator.
RegisterWidth(validator) == IF validator = "register_8" THEN 8 ELSE 16

RECURSIVE Pow2(_)
Pow2(k) == IF k = 0 THEN 1 ELSE 2 * Pow2(k - 1)

\* The call is a set through a register accessor.
RegisterSet ==
    /\ call.op = "set"
    /\ call.acc.validator \in {"register_8", "register_16"}

\* C27: a set through a register accessor is sent to the device exactly when
\* the value is an integer in 0 .. 2^width - 1, width 8 for the
\* service-request-enable register (and the standard-event-enable register,
\* on the same validator) and 16 for the Measurement Enable register (and the
\* Operation and Questionable ones); so no value outside that range is
\* written to a register.
C27_RegisterSetSentIffInRange ==
    RegisterSet =>
        /\ (bus # <<>>) <=>
               /\ call.value.t = "int"
               /\ call.value.n \in 0..(Pow2(RegisterWidth(call.acc.validator)) - 1)
        /\ \A i \in 1..Len(bus) :
               bus[i].op = "write" =>
                   /\ ParseInt(CmdArg(bus[i].cmd)).ok
                   /\ ParseInt(CmdArg(bus[i].cmd)).n \in
                          0..(Pow2(RegisterWidth(call.acc.validator)) - 1)

\* com.sre(255): an integer of the 8-bit range, and nothing is sent.
C27_InRangeNotSent ==
    /\ RegisterSet
    /\ call.acc.write = "*SRE"
    /\ call.value = PyInt(255)
    /\ bus = <<>>
    /\ Len(diag) = 1

\* What holds of the code: a register set is sent exactly when the value is
\* an integer inside the validator's own range, 0..128 for register_8 and
\* 0..65535 for register_16.
C27_SentIffInValidatorRange ==
    RegisterSet =>
        ((bus # <<>>) <=>
            /\ call.value.t = "int"
            /\ call.value.n \in 0..(IF call.acc.validator = "register_8" THEN 128 ELSE 65535))

\* C29: for every component the set of keys of its values dict is fixed at
\* construction: no get and no set changes it, a successful set storing the
\* re-queried response under the key the constructor filled for that
\* parameter.  (Stated as claimed, of every get and set step.)
C29_KeySetsFixed ==
    [][(ncalls' = ncalls + 1 /\ call'.op \in {"get", "set"}) =>
           \A c \in Components : DOMAIN values'[c] = DOMAIN values[c]]_vars

\* A Log after sample_channel('dvm'): a key the constructor did not make,
\* and the constructor's key still holding the answer of the construction.
C29_NewKeyAfterSet ==
    /\ call.op = "set"
    /\ call.acc.query = ":SENS:" \o chan \o ":PULS:MEAS:CHAN?"
    /\ "sample_source" \in DOMAIN values["log"]
    /\ values["log"]["sample_source"] = "DVM"
    /\ values["log"]["sample_channel"] = "CURR"

\* What holds of the code: the keys of construction are never removed, and the
\* only key a get or set ever adds is 'sample_source' of the Log.
C29_KeySetsGrowBySampleSourceOnly ==
    [][(ncalls' = ncalls + 1 /\ call'.op \in {"get", "set"}) =>
           \A c \in Components :
               /\ DOMAIN values[c] \subseteq DOMAIN values'[c]
               /\ DOMAIN values'[c] \ DOMAIN values[c] \subseteq
                      (IF c = "log" THEN {"sample_source"} ELSE {})]_vars

\* The bus record of a statistic measurement that switched the sense
\* function to source first, and of one that did not.
StatBusSwitched(ch, source, query) ==
    <<BusWrite(":SENS:" \o ch \o ":FUNC " \o source), BusQuery(":SENS:" \o ch \o ":FUNC?"),
      BusQuery(query)>>
StatBusDirect(query) == <<BusQuery(query)>>

\* C30: a statistic measurement of Measure for source S (CURR or VOLT) checks
\* the cached sense function first.  If the cached text does not contain S,
\* the call issues one sense write for S, then one sense query whose answer
\* becomes the cached sense function, then the measurement query; if it
\* contains S the call issues the measurement query alone and the cache is
\* left as it is.  Either way the ':MEAS:<channel>:<stat>?' query is the last
\* bus operation, it is issued once, and its response is returned.
C30_StatSwitchesSenseFirst ==
    [][(ncalls' = ncalls + 1 /\ call'.op = "stat") =>
           /\ IF ~StrContains(values["measure"]["sense"], call'.value.s)
              THEN /\ bus' = StatBusSwitched(chan, call'.value.s, call'.acc.query)
                   /\ values'["measure"]["sense"] \in
                          DeviceAnswers(dev', ":SENS:" \o chan \o ":FUNC?")
                   /\ values'["measure"]["sense"] \in responses'
                   /\ \A c \in Components \ {"measure"} : values'[c] = values[c]
              ELSE /\ bus' = StatBusDirect(call'.acc.query)
                   /\ values' = values
           /\ \E stat \in {"LOW", "HIGH", "MIN", "PEAK", "AVER", "RMS", "DVM"} :
                  call'.acc.query = ":MEAS:" \o chan \o ":" \o stat \o "?"
           /\ ret' = PyStr(call'.answer)
           /\ diag' = <<>>
           /\ raised' = ""]_vars

\* A statistic of CURR on a Measure that was on VOLT: the switch, the
\* re-query (answered 'CURR'), the measurement.
C30_Witness ==
    /\ call.op = "stat"
    /\ call.value = PyStr("CURR")
    /\ bus = StatBusSwitched("A", "CURR", ":MEAS:A:AVER?")
    /\ values["measure"]["sense"] = "CURR"
    /\ ret = PyStr("0")

\* The run is over and has gone all the way: it armed, it waited and the wait
\* returned, and it took one branch: it ended DataReady, TimedOut or Unknown,
\* or it was in the data branch when the fetched text did not parse.
RanThrough ==
    /\ pc = "idle"
    /\ ArmPlaces # {}
    /\ run.waited \in {"srq", "timeout"}
    /\ \/ /\ raised = ""
          /\ run.outcome \in {"DataReady", "TimedOut", "Unknown"}
          /\ Cardinality({kind \in {"timeout", "unknown"} : Diagnosed(kind)})
                 + Cardinality(SeriesKeys) = 1
       \/ /\ run.failed = "parse"
          /\ HasBit(run.event_reg, ReadingBit)
          /\ FetchQuery \in {bus[i] : i \in 1..Len(bus)}

ParkedReturned ==
    /\ parked.ctx.pc = "idle"
    /\ parked.ctx.raised = ""
    /\ parked.ctx.run.outcome \in {"DataReady", "TimedOut", "Unknown"}

\* C24: of two runs on one connection, one on channel A and one on channel B:
\* when they are executed one after the other (no run is ever left in
\* mid-flight for the other Log to step), the Measurement Enable register
\* equals its value of before both runs after each run; when their bus
\* operations interleave, there is an interleaving after which it does not
\* (the state of C24_Corrupted is reached).  The runs are runs that return;
\* a run ended by an exception restores nothing, as a single run.
C24_SequentialRunsRestore ==
    (RunReturned /\ ~parked.overlapped /\ parked.ctx.raised = "") =>
        dev.enab = parked.original

\* Both runs have returned and the Enable register is left at the mask of
\* channel A, which the run on B saved as the value to put back.
C24_Corrupted ==
    /\ RunReturned
    /\ ParkedReturned
    /\ parked.overlapped
    /\ parked.original = 21
    /\ dev.enab = 56

====
